---- MODULE Spec2Model ----
(***************************************************************************)
(* Model of quran_ayah_lookup: the in-memory QuranDatabase (models.py),    *)
(* the text utilities (text_utils.py: normalisation, single-verse fuzzy    *)
(* search, multi-ayah sliding-window search with boundary refinement) and  *)
(* the cascading smart_search of the package front (__init__.py).          *)
(*                                                                         *)
(* Text is modelled at character level: a Python str is a sequence of      *)
(* one-character strings.  The characters stand for the classes the code   *)
(* distinguishes:                                                          *)
(*    "a" "b"   base letters, untouched by normalisation                   *)
(*    "A"       ALEF U+0627                                                *)
(*    "X"       ALEF WASLA U+0671 (folded to ALEF)                         *)
(*    "w"       WAW U+0648                                                 *)
(*    "'"       FATHA U+064E, one of ALL_DIACRITICS_AND_MARKS              *)
(*    " "       space                                                      *)
(* Similarity scores are exact rationals <<num, den>> on the scale of the  *)
(* function that produced them.                                            *)
(***************************************************************************)
EXTENDS Integers, Sequences, FiniteSets, TLC

VARIABLES db, call

vars == <<db, call>>

(***************************************************************************)
(* Python str / list helpers                                               *)
(***************************************************************************)
Min(x, y) == IF x <= y THEN x ELSE y

Max(x, y) == IF x >= y THEN x ELSE y

\* code-point order of the modelled characters (Python compares str by code point)
CharOrder == <<"\t", " ", "'", "A", "X", "a", "b", "w">>

CharRank(c) == CHOOSE i \in 1..Len(CharOrder) : CharOrder[i] = c

\* str.isspace() for one character
IsSpace(c) == c \in {" ", "\t"}

\* s[i:j] for 0 <= i, 0 <= j (Python slice, 0-based, end exclusive, clipped)
Slice(s, i, j) == SubSeq(s, Min(i, Len(s)) + 1, Min(j, Len(s)))

\* lst[:k] for a possibly negative integer k
PyPrefix(s, k) == IF k >= 0 THEN Slice(s, 0, k) ELSE Slice(s, 0, Max(0, Len(s) + k))

\* s[-k:] for k > 0
PySuffix(s, k) == Slice(s, Max(0, Len(s) - k), Len(s))

RECURSIVE LStrip(_)
LStrip(s) == IF s # <<>> /\ IsSpace(Head(s)) THEN LStrip(Tail(s)) ELSE s

RECURSIVE RStrip(_)
RStrip(s) ==
    IF s # <<>> /\ IsSpace(s[Len(s)]) THEN RStrip(SubSeq(s, 1, Len(s) - 1)) ELSE s

\* str.strip()
Strip(s) == RStrip(LStrip(s))

\* str.split(): the maximal runs of non-whitespace characters, in order
RECURSIVE SplitFrom(_, _, _)
SplitFrom(s, cur, acc) ==
    IF s = <<>> THEN (IF cur = <<>> THEN acc ELSE Append(acc, cur))
    ELSE IF IsSpace(Head(s))
         THEN SplitFrom(Tail(s), <<>>, IF cur = <<>> THEN acc ELSE Append(acc, cur))
         ELSE SplitFrom(Tail(s), Append(cur, Head(s)), acc)

Split(s) == SplitFrom(s, <<>>, <<>>)

\* " ".join(words)
RECURSIVE Join(_)
Join(ws) ==
    IF ws = <<>> THEN <<>>
    ELSE IF Len(ws) = 1 THEN ws[1]
    ELSE ws[1] \o <<" ">> \o Join(Tail(ws))

\* sub in s  (substring containment; the empty string is in every string)
Contains(s, sub) ==
    \E i \in 0..(Len(s) - Len(sub)) : SubSeq(s, i + 1, i + Len(sub)) = sub

\* s with every character of the set cs removed (str.replace(mark, '') / re.sub)
RECURSIVE RemoveChars(_, _)
RemoveChars(s, cs) ==
    IF s = <<>> THEN <<>>
    ELSE IF Head(s) \in cs THEN RemoveChars(Tail(s), cs)
    ELSE <<Head(s)>> \o RemoveChars(Tail(s), cs)

\* s.replace(old_char, new_char) for single characters
ReplaceChar(s, old, new) == [i \in 1..Len(s) |-> IF s[i] = old THEN new ELSE s[i]]

\* s.replace(' w ', ' w'): leftmost, non-overlapping occurrences
RECURSIVE ReplaceWawSpace(_)
ReplaceWawSpace(s) ==
    IF Len(s) < 3 THEN s
    ELSE IF SubSeq(s, 1, 3) = <<" ", "w", " ">>
         THEN <<" ", "w">> \o ReplaceWawSpace(SubSeq(s, 4, Len(s)))
         ELSE <<Head(s)>> \o ReplaceWawSpace(Tail(s))

(***************************************************************************)
(* text_utils.normalize_arabic_text                                        *)
(***************************************************************************)
ALL_DIACRITICS_AND_MARKS == {"'"}

normalize_arabic_text(text) ==
    IF text = <<>> THEN text
    ELSE LET stripped == RemoveChars(text, ALL_DIACRITICS_AND_MARKS)
             folded   == ReplaceChar(stripped, "X", "A")
             waw      == ReplaceWawSpace(folded)
         IN  Join(Split(waw))

(***************************************************************************)
(* models.QuranVerse / QuranChapter / QuranDatabase                        *)
(*                                                                         *)
(* db.surahs is the dict surah number -> chapter, a chapter being its      *)
(* ayahs dict (ayah number -> verse); db.surahs_keys is the insertion      *)
(* order of that dict, which dict.values() follows.                        *)
(***************************************************************************)
QuranVerse(surah_number, ayah_number, text, is_basmalah) ==
    [surah_number    |-> surah_number,
     ayah_number     |-> ayah_number,
     text            |-> text,
     text_normalized |-> normalize_arabic_text(text),
     is_basmalah     |-> is_basmalah]

\* sorted(keys) of a finite set of integers
RECURSIVE sorted(_)
sorted(S) ==
    IF S = {} THEN <<>>
    ELSE LET m == CHOOSE x \in S : \A y \in S : x <= y
         IN  <<m>> \o sorted(S \ {m})

\* the concatenation of a sequence of sequences (list.extend in a loop)
RECURSIVE Flatten(_)
Flatten(ss) == IF ss = <<>> THEN <<>> ELSE Head(ss) \o Flatten(Tail(ss))

EmptyDatabase ==
    [surahs                        |-> <<>>,
     surahs_keys                   |-> <<>>,
     total_verses                  |-> 0,
     total_verses_without_basmalah |-> 0,
     sorted_surahs_ref_list        |-> <<>>,
     sorted_ayahs_ref_list         |-> <<>>,
     corpus_words_list             |-> <<>>,
     corpus_words_list_normalized  |-> <<>>,
     cache_enabled                 |-> FALSE]

\* QuranChapter.get_all_verses: the chapter's verses ordered by ayah number
chapter_get_all_verses(ayahs) ==
    LET keys == sorted(DOMAIN ayahs) IN [i \in 1..Len(keys) |-> ayahs[keys[i]]]

\* QuranDatabase.add_verse (with QuranChapter.add_verse): the database after the call
add_verse(d, verse) ==
    LET s       == verse.surah_number
        present == s \in DOMAIN d.surahs
        ayahs   == IF present THEN d.surahs[s] ELSE <<>>
    IN  [d EXCEPT
           !.surahs      = (s :> ((verse.ayah_number :> verse) @@ ayahs)) @@ d.surahs,
           !.surahs_keys = IF present THEN @ ELSE Append(@, s),
           !.total_verses = @ + 1,
           !.total_verses_without_basmalah = IF verse.is_basmalah THEN @ ELSE @ + 1]

\* finalize_cache listing the chapters in dict order instead of sorted order
finalize_cache_unsorted(d) ==
    LET surah_list == d.surahs_keys
        refs  == Flatten([i \in 1..Len(surah_list) |->
                     LET ks == sorted(DOMAIN d.surahs[surah_list[i]])
                     IN  [j \in 1..Len(ks) |-> <<surah_list[i], ks[j]>>]])
        verse(r) == d.surahs[r[1]][r[2]]
    IN  [d EXCEPT
           !.sorted_surahs_ref_list = surah_list,
           !.sorted_ayahs_ref_list  = refs,
           !.corpus_words_list =
               Flatten([i \in 1..Len(refs) |-> Split(verse(refs[i]).text)]),
           !.corpus_words_list_normalized =
               Flatten([i \in 1..Len(refs) |-> Split(verse(refs[i]).text_normalized)]),
           !.cache_enabled = TRUE]

\* QuranDatabase.finalize_cache: the database after the call
finalize_cache(d) ==
    LET surah_list == sorted(DOMAIN d.surahs)
        refs  == Flatten([i \in 1..Len(surah_list) |->
                     LET ks == sorted(DOMAIN d.surahs[surah_list[i]])
                     IN  [j \in 1..Len(ks) |-> <<surah_list[i], ks[j]>>]])
        verse(r) == d.surahs[r[1]][r[2]]
    IN  [d EXCEPT
           !.sorted_surahs_ref_list = surah_list,
           !.sorted_ayahs_ref_list  = refs,
           !.corpus_words_list =
               Flatten([i \in 1..Len(refs) |-> Split(verse(refs[i]).text)]),
           !.corpus_words_list_normalized =
               Flatten([i \in 1..Len(refs) |-> Split(verse(refs[i]).text_normalized)]),
           !.cache_enabled = TRUE]

\* QuranDatabase.get_verse raises ValueError
get_verse_raises(d, surah_number, ayah_number) ==
    \/ surah_number \notin DOMAIN d.surahs
    \/ ayah_number \notin DOMAIN d.surahs[surah_number]

\* get_verse answering with the first verse of the chapter
get_verse_first_of_chapter(d, surah_number, ayah_number) ==
    chapter_get_all_verses(d.surahs[surah_number])[1]

\* QuranDatabase.get_verse, where it does not raise
get_verse(d, surah_number, ayah_number) == d.surahs[surah_number][ayah_number]

\* QuranDatabase.get_surah raises ValueError
get_surah_raises(d, surah_number) == surah_number \notin DOMAIN d.surahs

\* QuranDatabase.get_surah, where it does not raise: the chapter (its number and
\* its ayahs dict)
get_surah(d, surah_number) == [number |-> surah_number, ayahs |-> d.surahs[surah_number]]

\* QuranDatabase.get_surah_verses, where get_surah does not raise
get_surah_verses(d, surah_number) ==
    chapter_get_all_verses(get_surah(d, surah_number).ayahs)

\* QuranDatabase.get_all_verses
get_all_verses(d) ==
    IF d.cache_enabled /\ d.sorted_ayahs_ref_list # <<>>
    THEN [i \in 1..Len(d.sorted_ayahs_ref_list) |->
             get_verse(d, d.sorted_ayahs_ref_list[i][1], d.sorted_ayahs_ref_list[i][2])]
    ELSE LET ks == sorted(DOMAIN d.surahs)
         IN  Flatten([i \in 1..Len(ks) |-> chapter_get_all_verses(d.surahs[ks[i]])])

\* the text a search looks at
SearchedText(verse, normalized) ==
    IF normalized THEN verse.text_normalized ELSE verse.text

\* search_text looking at the normalized text whatever the flag says
search_text_normalized_only(d, query, normalized) ==
    LET all == Flatten([i \in 1..Len(d.surahs_keys) |->
                   chapter_get_all_verses(d.surahs[d.surahs_keys[i]])])
        hit(v) == Contains(v.text_normalized, query)
    IN  SelectSeq(all, hit)

\* QuranDatabase.search_text: chapters in dict order, verses by ayah number
search_text(d, query, normalized) ==
    LET all == Flatten([i \in 1..Len(d.surahs_keys) |->
                   chapter_get_all_verses(d.surahs[d.surahs_keys[i]])])
        hit(v) == Contains(SearchedText(v, normalized), query)
    IN  SelectSeq(all, hit)

(***************************************************************************)
(* Similarity scores.  A score is the exact rational <<num, den>>, den > 0. *)
(***************************************************************************)
RLess(x, y) == x[1] * y[2] < y[1] * x[2]

RLeq(x, y) == x[1] * y[2] <= y[1] * x[2]

REq(x, y) == x[1] * y[2] = y[1] * x[2]

RMax(x, y) == IF RLess(x, y) THEN y ELSE x

\* x / 100.0
RDiv100(x) == <<x[1], 100 * x[2]>>

\* round(x, 3): to the nearest thousandth, an exact tie to the even one
round3(x) ==
    LET q == (1000 * x[1]) \div x[2]
        r == (1000 * x[1]) % x[2]
    IN  IF 2 * r < x[2] THEN <<q, 1000>>
        ELSE IF 2 * r > x[2] THEN <<q + 1, 1000>>
        ELSE <<q + (q % 2), 1000>>

(***************************************************************************)
(* rapidfuzz.fuzz, as called by text_utils: ratio is the normalised Indel  *)
(* similarity 100 * 2 * LCS / (len1 + len2) on the scale 0..100.           *)
(***************************************************************************)
RECURSIVE LcsFill(_, _, _, _)
LcsFill(prev, c, t, row) ==
    IF Len(row) = Len(t) + 1 THEN row
    ELSE LET j == Len(row)
         IN  LcsFill(prev, c, t,
                     Append(row, IF c = t[j] THEN prev[j] + 1
                                 ELSE Max(prev[j + 1], row[j])))

RECURSIVE LcsRows(_, _, _)
LcsRows(s, t, prev) ==
    IF s = <<>> THEN prev[Len(t) + 1]
    ELSE LcsRows(Tail(s), t, LcsFill(prev, Head(s), t, <<0>>))

\* length of a longest common subsequence
LCS(s, t) == LcsRows(s, t, [j \in 1..(Len(t) + 1) |-> 0])

\* Indel distance: insertions and deletions turning s into t
indel_distance(s, t) == Len(s) + Len(t) - 2 * LCS(s, t)

\* 100 - 100 * dist / lensum, 100 when lensum is 0
norm_distance(dist, lensum) ==
    IF lensum = 0 THEN <<100, 1>> ELSE <<100 * (lensum - dist), lensum>>

\* fuzz.ratio
ratio(s, t) == norm_distance(indel_distance(s, t), Len(s) + Len(t))

\* s < t for Python str
RECURSIVE StrLess(_, _)
StrLess(s, t) ==
    IF t = <<>> THEN FALSE
    ELSE IF s = <<>> THEN TRUE
    ELSE IF Head(s) = Head(t) THEN StrLess(Tail(s), Tail(t))
    ELSE CharRank(Head(s)) < CharRank(Head(t))

\* sorted(tokens) of a finite set of str
RECURSIVE sorted_tokens(_)
sorted_tokens(S) ==
    IF S = {} THEN <<>>
    ELSE LET m == CHOOSE x \in S : \A y \in S \ {x} : StrLess(x, y)
         IN  <<m>> \o sorted_tokens(S \ {m})

\* sorted(list of str), duplicates kept
RECURSIVE sorted_words(_)
sorted_words(ws) ==
    IF ws = <<>> THEN <<>>
    ELSE LET i == CHOOSE k \in 1..Len(ws) :
                      \A l \in 1..Len(ws) : ~StrLess(ws[l], ws[k])
         IN  <<ws[i]>> \o sorted_words(SubSeq(ws, 1, i - 1) \o SubSeq(ws, i + 1, Len(ws)))

Range(f) == {f[i] : i \in DOMAIN f}

\* fuzz.token_sort_ratio
token_sort_ratio(s1, s2) ==
    IF s1 = <<>> \/ s2 = <<>> THEN <<0, 1>>
    ELSE ratio(Join(sorted_words(Split(s1))), Join(sorted_words(Split(s2))))

\* fuzz.token_set_ratio
token_set_ratio(s1, s2) ==
    LET tokens_a  == Range(Split(s1))
        tokens_b  == Range(Split(s2))
        intersect == tokens_a \cap tokens_b
        diff_ab   == Join(sorted_tokens(tokens_a \ tokens_b))
        diff_ba   == Join(sorted_tokens(tokens_b \ tokens_a))
        sect_len  == Len(Join(sorted_tokens(intersect)))
        sep       == IF sect_len # 0 THEN 1 ELSE 0
        sect_ab_len == sect_len + sep + Len(diff_ab)
        sect_ba_len == sect_len + sep + Len(diff_ba)
        result    == norm_distance(indel_distance(diff_ab, diff_ba),
                                   sect_ab_len + sect_ba_len)
        sect_ab_ratio == norm_distance(sep + Len(diff_ab), sect_len + sect_ab_len)
        sect_ba_ratio == norm_distance(sep + Len(diff_ba), sect_len + sect_ba_len)
    IN  IF tokens_a = {} \/ tokens_b = {} THEN <<0, 1>>
        ELSE IF intersect # {} /\ (tokens_a \subseteq tokens_b \/ tokens_b \subseteq tokens_a)
             THEN <<100, 1>>
        ELSE IF sect_len = 0 THEN result
        ELSE RMax(result, RMax(sect_ab_ratio, sect_ba_ratio))

(***************************************************************************)
(* Optional arguments.  max_results is None or an int:                     *)
(* [given |-> FALSE, n |-> 0] is None, [given |-> TRUE, n |-> k] is k.     *)
(***************************************************************************)
None == [given |-> FALSE, n |-> 0]

Some(k) == [given |-> TRUE, n |-> k]

\* bool(max_results): None and 0 are falsy
Truthy(max_results) == max_results.given /\ max_results.n # 0

\* results.sort(key=lambda x: x.similarity, reverse=True): stable, descending
RECURSIVE InsertDesc(_, _)
InsertDesc(sortedSeq, x) ==
    IF sortedSeq = <<>> THEN <<x>>
    ELSE IF RLess(Head(sortedSeq).similarity, x.similarity)
         THEN <<x>> \o sortedSeq
         ELSE <<Head(sortedSeq)>> \o InsertDesc(Tail(sortedSeq), x)

RECURSIVE SortFrom(_, _)
SortFrom(acc, rest) ==
    IF rest = <<>> THEN acc ELSE SortFrom(InsertDesc(acc, Head(rest)), Tail(rest))

\* the list left in the order the matches were found
sort_by_similarity_skipped(results) == results

sort_by_similarity(results) == SortFrom(<<>>, results)

(***************************************************************************)
(* text_utils.fuzzy_substring_search                                       *)
(***************************************************************************)
NoMatch == [found |-> FALSE]

\* the (i, current_window) pairs one pass of the double loop evaluates, in order
FuzzyWindows(n_words, q_len, window_size) ==
    LET max_start == Max(0, n_words - q_len + 1)
        at(i) == SelectSeq(<<<<i, q_len>>, <<i, Min(window_size, n_words - i)>>>>,
                           LAMBDA w : ~(w[1] + w[2] > n_words))
    IN  Flatten([k \in 1..max_start |-> at(k - 1)])

\* one pass over the windows with one scorer, keeping the first best
RECURSIVE FuzzyPass(_, _, _, _, _)
FuzzyPass(windows, query, text_words, use_set, best) ==
    IF windows = <<>> THEN best
    ELSE LET i       == Head(windows)[1]
             cw      == Head(windows)[2]
             segment == Join(SubSeq(text_words, i + 1, i + cw))
             score   == RDiv100(IF use_set THEN token_set_ratio(query, segment)
                                ELSE token_sort_ratio(query, segment))
             next    == IF RLess(best.score, score)
                        THEN [score |-> score, range |-> <<i, i + cw>>,
                              matched_text |-> segment]
                        ELSE best
         IN  FuzzyPass(Tail(windows), query, text_words, use_set, next)

\* best_score, best_range and best_matched_text after both passes
fuzzy_best(query, text) ==
    LET text_words  == Split(text)
        q_len       == Len(Split(query))
        window_size == Max(q_len + 3, q_len * 2)
        windows     == FuzzyWindows(Len(text_words), q_len, window_size)
        start       == [score |-> <<0, 1>>, range |-> <<0, 0>>, matched_text |-> <<>>]
        after_set   == FuzzyPass(windows, query, text_words, TRUE, start)
    IN  FuzzyPass(windows, query, text_words, FALSE, after_set)

\* the dict returned for the best window
fuzzy_match(best) ==
    [found        |-> TRUE,
     start_word   |-> best.range[1],
     end_word     |-> best.range[2],
     similarity   |-> round3(best.score),
     matched_text |-> best.matched_text]

\* the test of the best score against the threshold
fuzzy_threshold_test(best, threshold) ==
    IF RLess(best.score, threshold) THEN NoMatch ELSE fuzzy_match(best)

\* fuzzy_substring_search without the test of the best score against the threshold
fuzzy_substring_search_no_threshold(query, text, threshold) ==
    IF Strip(query) = <<>> \/ Strip(text) = <<>> THEN NoMatch
    ELSE fuzzy_match(fuzzy_best(query, text))

fuzzy_substring_search(query, text, threshold) ==
    IF Strip(query) = <<>> \/ Strip(text) = <<>> THEN NoMatch
    ELSE fuzzy_threshold_test(fuzzy_best(query, text), threshold)

(***************************************************************************)
(* text_utils.fuzzy_search_text and QuranDatabase.fuzzy_search             *)
(***************************************************************************)
\* the query a search runs with
SearchQuery(query, normalized) ==
    IF normalized THEN normalize_arabic_text(Strip(query)) ELSE Strip(query)

\* the FuzzySearchResult of every verse whose match is not None, in verse order;
\* matches[i] is what fuzzy_substring_search returned for verses[i]
RECURSIVE FuzzySearchResults(_, _, _)
FuzzySearchResults(verses, matches, search_query) ==
    IF verses = <<>> THEN <<>>
    ELSE (IF Head(matches).found
          THEN <<[verse        |-> Head(verses),
                  start_word   |-> Head(matches).start_word,
                  end_word     |-> Head(matches).end_word,
                  similarity   |-> Head(matches).similarity,
                  matched_text |-> Head(matches).matched_text,
                  query_text   |-> search_query]>>
          ELSE <<>>)
         \o FuzzySearchResults(Tail(verses), Tail(matches), search_query)

\* the limit on a sorted list of fuzzy results
fuzzy_limit(ordered, max_results) ==
    IF Truthy(max_results) /\ Len(ordered) > max_results.n
    THEN PyPrefix(ordered, max_results.n)
    ELSE ordered

fuzzy_search_text(query, verses, threshold, normalized, max_results) ==
    IF Strip(query) = <<>> THEN <<>>
    ELSE fuzzy_limit(
             sort_by_similarity(
                 FuzzySearchResults(
                     verses,
                     [i \in 1..Len(verses) |->
                         fuzzy_substring_search(SearchQuery(query, normalized),
                                                SearchedText(verses[i], normalized),
                                                threshold)],
                     SearchQuery(query, normalized))),
             max_results)

fuzzy_search(d, query, threshold, normalized, max_results) ==
    fuzzy_search_text(query, get_all_verses(d), threshold, normalized, max_results)

(***************************************************************************)
(* rapidfuzz.fuzz.partial_ratio_alignment(s1, s2), s1 and s2 non-empty:    *)
(* the optimal alignment of the shorter string in the longer one and the   *)
(* ratio of that alignment.  The windows of the longer string are its      *)
(* substrings of the shorter one's length and the shorter prefixes and     *)
(* suffixes.  Which of several optimal windows is reported is left open:   *)
(* the operator gives the set of alignments the call may return.           *)
(***************************************************************************)
\* the windows <<start, end>> of a haystack of length n for a needle of length m <= n
AlignmentWindows(m, n) ==
    {<<0, i>> : i \in 1..(m - 1)}
        \cup {<<i, i + m>> : i \in 0..(n - m)}
        \cup {<<i, n>> : i \in (n - m + 1)..(n - 1)}

\* the best ratio of needle against a window of haystack
BestWindowScore(needle, haystack) ==
    LET ws == AlignmentWindows(Len(needle), Len(haystack))
        sc(w) == ratio(needle, Slice(haystack, w[1], w[2]))
    IN  sc(CHOOSE w \in ws : \A v \in ws : RLeq(sc(v), sc(w)))

partial_ratio_alignment(s1, s2) ==
    LET len1 == Len(s1)
        len2 == Len(s2)
        direct == IF len1 <= len2
                  THEN {[score |-> ratio(s1, Slice(s2, w[1], w[2])),
                         dest_start |-> w[1], dest_end |-> w[2]] :
                            w \in AlignmentWindows(len1, len2)}
                  ELSE {}
        swapped == IF len1 >= len2
                   THEN {[score |-> BestWindowScore(s2, s1),
                          dest_start |-> 0, dest_end |-> len2]}
                   ELSE {}
        cands == direct \cup swapped
    IN  {a \in cands : \A b \in cands : RLeq(b.score, a.score)}

(***************************************************************************)
(* text_utils.sliding_window_multi_ayah_search: the cursor loop            *)
(***************************************************************************)
\* word_char_offsets: the offset of each word in " ".join(text_segments)
RECURSIVE OffsetsFrom(_, _, _)
OffsetsFrom(ws, pos, acc) ==
    IF ws = <<>> THEN acc
    ELSE OffsetsFrom(Tail(ws), pos + Len(Head(ws)) + 1, Append(acc, pos))

word_char_offsets(text_segments) == OffsetsFrom(text_segments, 0, <<>>)

\* bisect.bisect_left(a, x) for a sorted list a
bisect_left(a, x) == Cardinality({i \in 1..Len(a) : a[i] < x})

\* bisect.bisect_right(a, x) for a sorted list a
bisect_right(a, x) == Cardinality({i \in 1..Len(a) : a[i] <= x})

\* the verses of verse_map[start_word_idx .. end_word_idx], each run listed once
RECURSIVE matched_verses(_, _, _, _)
matched_verses(verse_map, w_idx, end_word_idx, acc) ==
    IF w_idx > end_word_idx THEN acc
    ELSE LET verse_at_seg == verse_map[w_idx + 1][1]
         IN  matched_verses(verse_map, w_idx + 1, end_word_idx,
                 IF acc = <<>> \/ acc[Len(acc)] # verse_at_seg
                 THEN Append(acc, verse_at_seg) ELSE acc)

\* the MultiAyahMatch one iteration builds from an alignment at start_char
BuildMatch(c, start_char, alignment) ==
    LET match_start_char == start_char + alignment.dest_start
        match_end_char   == start_char + alignment.dest_end
        n                == Len(c.text_segments)
        sw0 == bisect_right(c.offsets, match_start_char) - 1
        ew0 == bisect_right(c.offsets, Max(match_end_char - 1, 0)) - 1
        start_word_idx == Max(0, Min(IF sw0 < 0 THEN 0 ELSE sw0, n - 1))
        end_word_idx   == Max(0, Min(IF ew0 < 0 THEN 0 ELSE ew0, n - 1))
    IN  IF start_word_idx >= Len(c.verse_map) \/ end_word_idx >= Len(c.verse_map)
        THEN [raises |-> TRUE, match_end_char |-> match_end_char]
        ELSE LET start_verse == c.verse_map[start_word_idx + 1][1]
                 end_verse   == c.verse_map[end_word_idx + 1][1]
             IN  [raises |-> FALSE,
                  match_end_char |-> match_end_char,
                  match |->
                    [verses       |-> matched_verses(c.verse_map, start_word_idx,
                                                     end_word_idx, <<>>),
                     similarity   |-> alignment.score,
                     matched_text |-> Join(SubSeq(c.text_segments, start_word_idx + 1,
                                                  end_word_idx + 1)),
                     query_text   |-> c.search_query,
                     start_surah  |-> start_verse.surah_number,
                     start_ayah   |-> start_verse.ayah_number,
                     start_word   |-> c.verse_map[start_word_idx + 1][2],
                     end_surah    |-> end_verse.surah_number,
                     end_ayah     |-> end_verse.ayah_number,
                     end_word     |-> c.verse_map[end_word_idx + 1][2] + 1]]

range_key(m) ==
    <<m.start_surah, m.start_ayah, m.start_word, m.end_surah, m.end_ayah, m.end_word>>

\* The while loop from start_char on: the set of its possible outcomes, each the
\* results list at loop exit, whether an IndexError escaped, and the value of
\* start_char at the head of every iteration.
RECURSIVE SlidingLoop(_, _, _, _, _)
SlidingLoop(c, start_char, results, seen_ranges, cursors) ==
    LET done == {[results |-> results, raises |-> FALSE, cursors |-> cursors]} IN
    IF ~(start_char < Len(c.full_text)) THEN done
    ELSE UNION {
        IF RLess(alignment.score, c.threshold) THEN done
        ELSE LET b == BuildMatch(c, start_char, alignment)
                 heads == Append(cursors, start_char)
             IN  IF b.raises
                 THEN {[results |-> results, raises |-> TRUE, cursors |-> heads]}
                 ELSE IF range_key(b.match) \in seen_ranges
                 THEN SlidingLoop(c, b.match_end_char, results, seen_ranges, heads)
                 ELSE IF Truthy(c.max_results)
                         /\ Len(results) + 1 >= c.max_results.n
                 THEN {[results |-> Append(results, b.match), raises |-> FALSE,
                        cursors |-> heads]}
                 ELSE SlidingLoop(c, b.match_end_char, Append(results, b.match),
                                  seen_ranges \cup {range_key(b.match)}, heads)
        : alignment \in
            partial_ratio_alignment(c.search_query,
                                    Slice(c.full_text, start_char, Len(c.full_text)))}

(***************************************************************************)
(* QuranDatabase.get_partial_verses                                        *)
(***************************************************************************)
\* the ValueError cases without the test of the range
get_partial_verses_raises_no_range_test(d, start_ayah, end_ayah) ==
    \/ start_ayah[1] \notin DOMAIN d.surahs
    \/ end_ayah[1] \notin DOMAIN d.surahs
    \/ start_ayah[2] \notin DOMAIN d.surahs[start_ayah[1]]
    \/ end_ayah[2] \notin DOMAIN d.surahs[end_ayah[1]]

\* the ValueError cases
get_partial_verses_raises(d, start_ayah, end_ayah) ==
    \/ start_ayah[1] \notin DOMAIN d.surahs
    \/ end_ayah[1] \notin DOMAIN d.surahs
    \/ start_ayah[2] \notin DOMAIN d.surahs[start_ayah[1]]
    \/ end_ayah[2] \notin DOMAIN d.surahs[end_ayah[1]]
    \/ start_ayah[1] > end_ayah[1]
    \/ (start_ayah[1] = end_ayah[1] /\ start_ayah[2] > end_ayah[2])

\* the range without the chapters strictly between the first and the last
get_partial_verses_no_middle(d, start_ayah, end_ayah) ==
    LET of(surah_num, keep(_)) ==
            SelectSeq(chapter_get_all_verses(d.surahs[surah_num]), keep)
    IN  IF start_ayah[1] = end_ayah[1]
        THEN of(start_ayah[1],
                LAMBDA v : start_ayah[2] <= v.ayah_number /\ v.ayah_number <= end_ayah[2])
        ELSE of(start_ayah[1], LAMBDA v : v.ayah_number >= start_ayah[2])
                 \o of(end_ayah[1], LAMBDA v : v.ayah_number <= end_ayah[2])

\* the returned list, where it does not raise
get_partial_verses(d, start_ayah, end_ayah) ==
    LET start_surah == start_ayah[1]
        end_surah   == end_ayah[1]
        of(surah_num, keep(_)) ==
            SelectSeq(chapter_get_all_verses(d.surahs[surah_num]), keep)
        middle == [k \in 1..Max(0, end_surah - start_surah - 1) |->
                      IF (start_surah + k) \in DOMAIN d.surahs
                      THEN chapter_get_all_verses(d.surahs[start_surah + k])
                      ELSE <<>>]
    IN  IF start_surah = end_surah
        THEN of(start_surah,
                LAMBDA v : start_ayah[2] <= v.ayah_number /\ v.ayah_number <= end_ayah[2])
        ELSE of(start_surah, LAMBDA v : v.ayah_number >= start_ayah[2])
                 \o Flatten(middle)
                 \o of(end_surah, LAMBDA v : v.ayah_number <= end_ayah[2])

\* a Python value passed for start_ayah or end_ayah: a tuple or a list of ints
PyTuple(items) == [type |-> "tuple", items |-> items]

PyList(items) == [type |-> "list", items |-> items]

\* isinstance(x, tuple) and len(x) == 2
is_2_tuple(x) == x.type = "tuple" /\ Len(x.items) = 2

\* a call that raised ValueError / a call that returned
Raised == [raises |-> TRUE]

Returned(v) == [raises |-> FALSE, ret |-> v]

\* QuranDatabase.get_partial_verses called with any two Python values
call_get_partial_verses(d, start_ayah, end_ayah) ==
    IF ~is_2_tuple(start_ayah) \/ ~is_2_tuple(end_ayah) THEN Raised
    ELSE IF get_partial_verses_raises(d, start_ayah.items, end_ayah.items) THEN Raised
    ELSE Returned(get_partial_verses(d, start_ayah.items, end_ayah.items))

(***************************************************************************)
(* text_utils.sliding_window_multi_ayah_search and                         *)
(* text_utils.refine_sliding_window_result.                                *)
(*                                                                         *)
(* The lengths the refinement works with are scaled down so that a bounded *)
(* query can be "long": the source refines queries of more than 500        *)
(* characters with probes of 30 characters over 5 verses either side.      *)
(***************************************************************************)
REFINE_QUERY_LEN == 3

PROBE_LEN == 2

CONTEXT_AYAHS == 1

\* an optional argument that was not passed
Absent == [given |-> FALSE]

Given(v) == [given |-> TRUE, val |-> v]

\* index of the first verse of all_verses with this surah and ayah number, 0 if none
FirstIndex(all_verses, ref) ==
    LET hits == {i \in 1..Len(all_verses) :
                    all_verses[i].surah_number = ref[1]
                    /\ all_verses[i].ayah_number = ref[2]}
    IN  IF hits = {} THEN 0 ELSE CHOOSE i \in hits : \A j \in hits : i <= j

\* text_segments and verse_map built from a list of verses
SegmentsOf(verses, normalized) ==
    Flatten([i \in 1..Len(verses) |-> Split(SearchedText(verses[i], normalized))])

VerseMapOf(verses, normalized) ==
    Flatten([i \in 1..Len(verses) |->
                [w \in 1..Len(Split(SearchedText(verses[i], normalized))) |->
                    <<verses[i], w - 1>>]])

\* the test that starts the refinement, for queries of any length
should_refine_any_length(query, results, has_db) == results # <<>> /\ has_db

\* if len(query) > 500 and results and db is not None
should_refine(query, results, has_db) ==
    Len(query) > REFINE_QUERY_LEN /\ results # <<>> /\ has_db

RECURSIVE sliding_window_multi_ayah_search(_, _, _, _, _, _, _)
RECURSIVE refine_sliding_window_result(_, _, _, _, _)

\* The set of possible outcomes [results, raises, cursors, refine_called, probes,
\* replaced]: probes counts the inner searches the refinement ran, replaced tells
\* whether results[0] was given new boundaries.
sliding_window_multi_ayah_search(query, verses_arg, threshold, normalized, max_results, db_arg, global_db) ==
    LET search_entire_db == ~verses_arg.given
        d      == IF db_arg.given THEN db_arg.val ELSE global_db
        has_db == db_arg.given \/ search_entire_db
        verses == IF search_entire_db THEN get_all_verses(d) ELSE verses_arg.val
        search_query == SearchQuery(query, normalized)
        use_cache == search_entire_db /\ d.cache_enabled /\ d.corpus_words_list # <<>>
        cached == IF normalized THEN d.corpus_words_list_normalized
                  ELSE d.corpus_words_list
        ref_verses == [i \in 1..Len(d.sorted_ayahs_ref_list) |->
                          get_verse(d, d.sorted_ayahs_ref_list[i][1],
                                    d.sorted_ayahs_ref_list[i][2])]
        text_segments ==
            IF use_cache
            THEN (IF cached # <<>> THEN cached ELSE SegmentsOf(ref_verses, normalized))
            ELSE SegmentsOf(verses, normalized)
        verse_map == IF use_cache THEN VerseMapOf(ref_verses, normalized)
                     ELSE VerseMapOf(verses, normalized)
        c == [search_query  |-> search_query,
              text_segments |-> text_segments,
              verse_map     |-> verse_map,
              full_text     |-> Join(text_segments),
              offsets       |-> word_char_offsets(text_segments),
              threshold     |-> threshold,
              max_results   |-> max_results]
        empty == {[results |-> <<>>, raises |-> FALSE, cursors |-> <<>>,
                   refine_called |-> FALSE, probes |-> 0,
                   replaced |-> FALSE]}
    IN  IF Strip(query) = <<>> \/ verses = <<>> \/ search_query = <<>>
           \/ text_segments = <<>>
        THEN empty
        ELSE UNION {
            LET sortedRes == sort_by_similarity(o.results) IN
            IF o.raises
            THEN {[results |-> <<>>, raises |-> TRUE, cursors |-> o.cursors,
                   refine_called |-> FALSE, probes |-> 0,
                   replaced |-> FALSE]}
            ELSE IF should_refine(query, sortedRes, has_db)
            THEN {[results |-> <<r.match>> \o Tail(sortedRes), raises |-> FALSE,
                   cursors |-> o.cursors, refine_called |-> TRUE,
                   probes |-> r.probes, replaced |-> r.match # sortedRes[1]] :
                     r \in refine_sliding_window_result(query, sortedRes[1], threshold,
                                                        normalized, d)}
            ELSE {[results |-> sortedRes, raises |-> FALSE, cursors |-> o.cursors,
                   refine_called |-> FALSE, probes |-> 0,
                   replaced |-> FALSE]}
            : o \in SlidingLoop(c, 0, <<>>, {}, <<>>)}

\* the database after a search that always runs the rebuild of an empty cached list
database_after_search_no_empty_test(query, verses_arg, normalized, db_arg, global_db) ==
    LET search_entire_db == ~verses_arg.given
        d      == IF db_arg.given THEN db_arg.val ELSE global_db
        verses == IF search_entire_db THEN get_all_verses(d) ELSE verses_arg.val
        use_cache == search_entire_db /\ d.cache_enabled /\ d.corpus_words_list # <<>>
        ref_verses == [i \in 1..Len(d.sorted_ayahs_ref_list) |->
                          get_verse(d, d.sorted_ayahs_ref_list[i][1],
                                    d.sorted_ayahs_ref_list[i][2])]
    IN  IF Strip(query) = <<>> \/ verses = <<>> \/ SearchQuery(query, normalized) = <<>>
        THEN d
        ELSE IF use_cache
        THEN (IF normalized
              THEN [d EXCEPT !.corpus_words_list_normalized =
                                 @ \o SegmentsOf(ref_verses, normalized)]
              ELSE [d EXCEPT !.corpus_words_list =
                                 @ \o SegmentsOf(ref_verses, normalized)])
        ELSE d

\* The database after sliding_window_multi_ayah_search returned: on the cached
\* path text_segments is the database's own word list (no copy is made), and the
\* rebuild that runs when that list is empty appends to it.
database_after_search(query, verses_arg, normalized, db_arg, global_db) ==
    LET search_entire_db == ~verses_arg.given
        d      == IF db_arg.given THEN db_arg.val ELSE global_db
        verses == IF search_entire_db THEN get_all_verses(d) ELSE verses_arg.val
        use_cache == search_entire_db /\ d.cache_enabled /\ d.corpus_words_list # <<>>
        cached == IF normalized THEN d.corpus_words_list_normalized
                  ELSE d.corpus_words_list
        ref_verses == [i \in 1..Len(d.sorted_ayahs_ref_list) |->
                          get_verse(d, d.sorted_ayahs_ref_list[i][1],
                                    d.sorted_ayahs_ref_list[i][2])]
    IN  IF Strip(query) = <<>> \/ verses = <<>> \/ SearchQuery(query, normalized) = <<>>
        THEN d
        ELSE IF use_cache /\ cached = <<>>
        THEN (IF normalized
              THEN [d EXCEPT !.corpus_words_list_normalized =
                                 @ \o SegmentsOf(ref_verses, normalized)]
              ELSE [d EXCEPT !.corpus_words_list =
                                 @ \o SegmentsOf(ref_verses, normalized)])
        ELSE d

\* The set of possible outcomes for a database that is not None: the match
\* returned, the number of probe searches made, what the two probes returned
\* (<<>> for one that was not run or raised), whether an exception was caught
\* and whether a probe search ran the refinement itself.
refine_sliding_window_result(query, best_match, threshold, normalized, d) ==
    LET kept(n, sr, er, ex, pr) ==
            {[match |-> best_match, probes |-> n, refined_start_results |-> sr,
              refined_end_results |-> er, caught |-> ex, probe_refine_called |-> pr]}
        keep(n) == kept(n, <<>>, <<>>, FALSE, FALSE)
        initial_start == <<best_match.start_surah, best_match.start_ayah>>
        initial_end   == <<best_match.end_surah, best_match.end_ayah>>
        all_db_verses == get_all_verses(d)
        start_idx == FirstIndex(all_db_verses, initial_start) - 1
        end_idx   == FirstIndex(all_db_verses, initial_end) - 1
        around(idx) == Slice(all_db_verses, Max(0, idx - CONTEXT_AYAHS),
                             Min(Len(all_db_verses), idx + CONTEXT_AYAHS + 1))
        probe(sub, vs) ==
            sliding_window_multi_ayah_search(sub, Given(vs), threshold, normalized,
                                             Some(1), Given(d), d)
    IN  IF Len(query) <= REFINE_QUERY_LEN THEN keep(0)
        ELSE IF start_idx < 0 \/ end_idx < 0 THEN keep(0)
        ELSE UNION {
            IF s.raises \/ e.raises
            THEN kept(2 + s.probes + e.probes, s.results, e.results, TRUE,
                      s.refine_called \/ e.refine_called)
            ELSE IF s.results = <<>> \/ e.results = <<>>
            THEN kept(2 + s.probes + e.probes, s.results, e.results, FALSE,
                      s.refine_called \/ e.refine_called)
            ELSE LET refined_start == s.results[1]
                     refined_end   == e.results[1]
                     new_start == <<refined_start.start_surah, refined_start.start_ayah>>
                     new_end   == <<refined_end.end_surah, refined_end.end_ayah>>
                     start_is_valid ==
                         \/ new_start[1] > initial_start[1]
                         \/ (new_start[1] = initial_start[1]
                             /\ new_start[2] >= initial_start[2])
                     end_is_valid ==
                         \/ new_end[1] < initial_end[1]
                         \/ (new_end[1] = initial_end[1] /\ new_end[2] <= initial_end[2])
                     refined_verses == get_partial_verses(d, new_start, new_end)
                 IN  IF ~(start_is_valid /\ end_is_valid)
                     THEN kept(2 + s.probes + e.probes, s.results, e.results, FALSE,
                               s.refine_called \/ e.refine_called)
                     ELSE IF get_partial_verses_raises(d, new_start, new_end)
                     THEN kept(2 + s.probes + e.probes, s.results, e.results, TRUE,
                               s.refine_called \/ e.refine_called)
                     ELSE {[match |->
                              [verses       |-> refined_verses,
                               similarity   |-> best_match.similarity,
                               matched_text |->
                                   Join([i \in 1..Len(refined_verses) |->
                                            SearchedText(refined_verses[i], normalized)]),
                               query_text   |-> best_match.query_text,
                               start_surah  |-> refined_start.start_surah,
                               start_ayah   |-> refined_start.start_ayah,
                               start_word   |-> refined_start.start_word,
                               end_surah    |-> refined_end.end_surah,
                               end_ayah     |-> refined_end.end_ayah,
                               end_word     |-> refined_end.end_word],
                            probes |-> 2 + s.probes + e.probes,
                            refined_start_results |-> s.results,
                            refined_end_results |-> e.results, caught |-> FALSE,
                            probe_refine_called |-> s.refine_called \/ e.refine_called]}
            : s \in probe(Slice(query, 0, PROBE_LEN),
                          around(start_idx)),
              e \in probe(PySuffix(query, PROBE_LEN), around(end_idx))}

(***************************************************************************)
(* The package front (__init__.py), over the loaded database d             *)
(***************************************************************************)
\* search_sliding_window: passes the verses and no database
search_sliding_window(d, query, threshold, normalized, max_results) ==
    sliding_window_multi_ayah_search(query, Given(get_all_verses(d)), threshold,
                                     normalized, max_results, Absent, d)

\* a blank query: not query or not query.strip()
IsBlank(query) == query = <<>> \/ Strip(query) = <<>>

\* The returned dict (method, results, count) and, beside it, the strategies that
\* were run, in order, and what each returned (<<>> for one that was not run).
smart_result(method, res, tried, ex, fz, sw) ==
    [method |-> method, results |-> res, count |-> Len(res), tried |-> tried,
     exact |-> ex, fuzzy |-> fz, sliding |-> sw]

\* results[:max_results] if max_results else results
smart_limit(results, max_results) ==
    IF Truthy(max_results) THEN PyPrefix(results, max_results.n) ELSE results

\* the cascade with the fuzzy and the sliding-window steps in the wrong order
smart_cascade_sliding_first(results, fuzzy_results, sliding_outcomes, max_results) ==
    IF results # <<>>
    THEN {smart_result("exact", smart_limit(results, max_results), <<"exact">>,
                       results, <<>>, <<>>)}
    ELSE {IF o.results # <<>>
          THEN smart_result("sliding_window", o.results, <<"exact", "sliding_window">>,
                            results, <<>>, o.results)
          ELSE IF fuzzy_results # <<>>
          THEN smart_result("fuzzy", fuzzy_results,
                            <<"exact", "sliding_window", "fuzzy">>,
                            results, fuzzy_results, o.results)
          ELSE smart_result("none", <<>>, <<"exact", "sliding_window", "fuzzy">>,
                            results, fuzzy_results, o.results)
          : o \in sliding_outcomes}

\* the cascade of smart_search for a query that is not blank: results,
\* fuzzy_results and sliding_outcomes are what the three searches return when
\* they are run
smart_cascade(results, fuzzy_results, sliding_outcomes, max_results) ==
    IF results # <<>>
    THEN {smart_result("exact", smart_limit(results, max_results), <<"exact">>,
                       results, <<>>, <<>>)}
    ELSE IF fuzzy_results # <<>>
    THEN {smart_result("fuzzy", fuzzy_results, <<"exact", "fuzzy">>, results,
                       fuzzy_results, <<>>)}
    ELSE {IF o.results # <<>>
          THEN smart_result("sliding_window", o.results,
                            <<"exact", "fuzzy", "sliding_window">>,
                            results, fuzzy_results, o.results)
          ELSE smart_result("none", <<>>, <<"exact", "fuzzy", "sliding_window">>,
                            results, fuzzy_results, o.results)
          : o \in sliding_outcomes}

\* smart_search without the test for a blank query
smart_search_no_blank_test(d, query, threshold, sliding_threshold, normalized, max_results) ==
    smart_cascade(search_text(d, query, normalized),
                  fuzzy_search(d, query, threshold, normalized, max_results),
                  search_sliding_window(d, query, sliding_threshold, normalized,
                                        max_results),
                  max_results)

\* smart_search: the set of possible returns
smart_search(d, query, threshold, sliding_threshold, normalized, max_results) ==
    IF IsBlank(query)
    THEN {smart_result("none", <<>>, <<>>, <<>>, <<>>, <<>>)}
    ELSE smart_cascade(search_text(d, query, normalized),
                       fuzzy_search(d, query, threshold, normalized, max_results),
                       search_sliding_window(d, query, sliding_threshold, normalized,
                                             max_results),
                       max_results)

(***************************************************************************)
(* Bounds of the model and the inputs the operations are exercised with    *)
(***************************************************************************)
MaxQueryLen == 3

MaxResultsArg == 2

MaxVerses == 3

QueryChars == {"a", "b", " "}

\* every str over QueryChars of at most n characters (blank ones included)
Strings(n) == UNION {[1..k -> QueryChars] : k \in 0..n}

Queries == Strings(MaxQueryLen)

\* the queries long enough for the refinement step to run
LongQueries == [1..(REFINE_QUERY_LEN + 1) -> QueryChars]

MaxResultsArgs == {None} \cup {Some(k) : k \in 0..MaxResultsArg}

\* thresholds of fuzzy_search (scale 0..1) and of the sliding window (scale 0..100)
FuzzyThresholds == {<<0, 1>>, <<3333, 10000>>, <<7, 10>>, <<1, 1>>}

SlidingThresholds == {<<0, 1>>, <<60, 1>>, <<80, 1>>, <<100, 1>>}

\* verse lists in the order the loader adds them
Corpus1 ==
    <<QuranVerse(1, 1, <<"b", "a">>, FALSE),
      QuranVerse(1, 2, <<"b", "a", "b", "a", " ", "b">>, FALSE)>>

Corpus2 ==
    <<QuranVerse(1, 1, <<"a", "b", "b", "b">>, FALSE),
      QuranVerse(2, 0, <<"a", "'", "b">>, TRUE),
      QuranVerse(2, 1, <<"b", " ", "a">>, FALSE)>>

Corpus3 ==
    <<QuranVerse(2, 1, <<"a", "b", " ", "a", "b">>, FALSE),
      QuranVerse(1, 1, <<"a">>, FALSE)>>

\* a verse that is a lone mark: no word is left of it once normalized
Corpus4 == <<QuranVerse(1, 1, <<"'">>, FALSE)>>

Corpora == {Corpus1, Corpus2, Corpus3}

\* QuranLoader.load_quran_data: add_verse for every verse, in order
RECURSIVE load_quran_data(_, _)
load_quran_data(d, verses) ==
    IF verses = <<>> THEN d ELSE load_quran_data(add_verse(d, Head(verses)), Tail(verses))

\* the databases a search runs against: loaded, with the cache built or not
LoadedDatabases ==
    {load_quran_data(EmptyDatabase, c) : c \in Corpora}
        \cup {finalize_cache(load_quran_data(EmptyDatabase, c)) : c \in Corpora}

(***************************************************************************)
(* The state machine.  db is the module-level database; call is the call   *)
(* in hand with what it returned, Idle between two calls.  Calls are       *)
(* synchronous and run one at a time.                                      *)
(***************************************************************************)
Idle == [op |-> "idle"]

Init ==
    /\ db = EmptyDatabase
    /\ call = Idle

\* the databases the queries are run on together: without and with the cache,
\* chapters added in and out of order, and one whose cached list of normalized
\* words is empty
QueriedDatabases ==
    {load_quran_data(EmptyDatabase, Corpus1),
     finalize_cache(load_quran_data(EmptyDatabase, Corpus2)),
     finalize_cache(load_quran_data(EmptyDatabase, Corpus3)),
     finalize_cache(load_quran_data(EmptyDatabase, Corpus4))}

InitQueries ==
    /\ db \in QueriedDatabases
    /\ call = Idle

\* the state once the package is imported
InitLoaded ==
    /\ db \in LoadedDatabases
    /\ call = Idle

\* the caller takes the result; the next call can be made
Return ==
    /\ call # Idle
    /\ call' = Idle
    /\ UNCHANGED db

SurahNumbers == 1..3

AyahNumbers == 0..1

VersePool ==
    {QuranVerse(s, a, t, a = 0) :
        s \in SurahNumbers, a \in AyahNumbers, t \in {<<"a", "'", "b">>, <<"b", " ", "a">>}}

AddVerse ==
    /\ call = Idle
    /\ db.total_verses < MaxVerses
    /\ \E verse \in VersePool :
        /\ db' = add_verse(db, verse)
        /\ call' = [op |-> "add_verse", verse |-> verse]

FinalizeCache ==
    /\ call = Idle
    /\ db' = finalize_cache(db)
    /\ call' = [op |-> "finalize_cache"]

FuzzySearch ==
    /\ call = Idle
    /\ \E query \in Queries, threshold \in FuzzyThresholds, normalized \in BOOLEAN,
           max_results \in MaxResultsArgs :
            /\ call' = [op |-> "fuzzy_search", query |-> query, threshold |-> threshold,
                        normalized |-> normalized, max_results |-> max_results,
                        ret |-> fuzzy_search(db, query, threshold, normalized, max_results)]
            /\ UNCHANGED db

\* the public search_sliding_window
SearchSlidingWindow ==
    /\ call = Idle
    /\ \E query \in Queries, threshold \in SlidingThresholds, normalized \in BOOLEAN,
           max_results \in MaxResultsArgs :
            \E o \in search_sliding_window(db, query, threshold, normalized, max_results) :
                /\ call' = [op |-> "search_sliding_window", query |-> query,
                            threshold |-> threshold, normalized |-> normalized,
                            max_results |-> max_results, with_db |-> FALSE, ret |-> o]
                /\ UNCHANGED db

\* the public search_sliding_window called with a query of more than
\* REFINE_QUERY_LEN characters
SearchSlidingWindowLong ==
    /\ call = Idle
    /\ \E query \in LongQueries, threshold \in SlidingThresholds, normalized \in BOOLEAN,
           max_results \in MaxResultsArgs :
            \E o \in search_sliding_window(db, query, threshold, normalized, max_results) :
                /\ call' = [op |-> "search_sliding_window", query |-> query,
                            threshold |-> threshold, normalized |-> normalized,
                            max_results |-> max_results, with_db |-> FALSE, ret |-> o]
                /\ UNCHANGED db

\* text_utils.sliding_window_multi_ayah_search(query, db=db) over the whole database
SlidingWindowMultiAyahSearch ==
    /\ call = Idle
    /\ \E query \in Queries \cup LongQueries, threshold \in SlidingThresholds, normalized \in BOOLEAN,
           max_results \in MaxResultsArgs :
            \E o \in sliding_window_multi_ayah_search(query, Absent, threshold, normalized,
                                                      max_results, Given(db), db) :
                /\ call' = [op |-> "sliding_window_multi_ayah_search", query |-> query,
                            threshold |-> threshold, normalized |-> normalized,
                            max_results |-> max_results, with_db |-> TRUE, ret |-> o]
                /\ db' = database_after_search(query, Absent, normalized, Given(db), db)

\* text_utils.refine_sliding_window_result(query, best_match, threshold,
\* normalized, db), best_match being the top match of the search for query
RefineSlidingWindowResult ==
    /\ call = Idle
    /\ \E query \in LongQueries, threshold \in SlidingThresholds, normalized \in BOOLEAN :
        \E o \in search_sliding_window(db, query, threshold, normalized, None) :
            /\ ~o.raises
            /\ o.results # <<>>
            /\ \E r \in refine_sliding_window_result(query, o.results[1], threshold,
                                                      normalized, db) :
                /\ call' = [op |-> "refine_sliding_window_result", query |-> query,
                            threshold |-> threshold, normalized |-> normalized,
                            best_match |-> o.results[1], ret |-> r.match,
                            probes |-> r.probes,
                            refined_start_results |-> r.refined_start_results,
                            refined_end_results |-> r.refined_end_results,
                            caught |-> r.caught,
                            probe_refine_called |-> r.probe_refine_called]
                /\ UNCHANGED db

SmartThresholds == {<<<<7, 10>>, <<80, 1>>>>, <<<<1, 1>>, <<100, 1>>>>, <<<<1, 1>>, <<60, 1>>>>}

SmartSearch ==
    /\ call = Idle
    /\ \E query \in Queries, t \in SmartThresholds, normalized \in BOOLEAN,
           max_results \in MaxResultsArgs :
            \E o \in smart_search(db, query, t[1], t[2], normalized, max_results) :
                /\ call' = [op |-> "smart_search", query |-> query, threshold |-> t[1],
                            sliding_threshold |-> t[2], normalized |-> normalized,
                            max_results |-> max_results, ret |-> o]
                /\ UNCHANGED db

\* add_verse while the database is being loaded: finalize_cache "should be
\* called after all verses are added"
LoadVerse ==
    /\ ~db.cache_enabled
    /\ AddVerse

GetVerse ==
    /\ call = Idle
    /\ \E surah_number \in SurahNumbers, ayah_number \in AyahNumbers :
        /\ call' = [op |-> "get_verse", surah_number |-> surah_number,
                    ayah_number |-> ayah_number,
                    ret |-> IF get_verse_raises(db, surah_number, ayah_number) THEN Raised
                            ELSE Returned(get_verse(db, surah_number, ayah_number))]
        /\ UNCHANGED db

GetSurah ==
    /\ call = Idle
    /\ \E surah_number \in SurahNumbers :
        /\ call' = [op |-> "get_surah", surah_number |-> surah_number,
                    ret |-> IF get_surah_raises(db, surah_number) THEN Raised
                            ELSE Returned(get_surah(db, surah_number))]
        /\ UNCHANGED db

GetSurahVerses ==
    /\ call = Idle
    /\ \E surah_number \in SurahNumbers :
        /\ call' = [op |-> "get_surah_verses", surah_number |-> surah_number,
                    ret |-> IF get_surah_raises(db, surah_number) THEN Raised
                            ELSE Returned(get_surah_verses(db, surah_number))]
        /\ UNCHANGED db

GetAllVerses ==
    /\ call = Idle
    /\ call' = [op |-> "get_all_verses", ret |-> Returned(get_all_verses(db))]
    /\ UNCHANGED db

\* the values passed for start_ayah and end_ayah: every coordinate, and values
\* that are not a 2-tuple
PartialArgs ==
    {PyTuple(<<s, a>>) : s \in SurahNumbers, a \in AyahNumbers}
        \cup {PyTuple(<<1>>), PyTuple(<<1, 1, 1>>), PyList(<<1, 1>>)}

GetPartialVerses ==
    /\ call = Idle
    /\ \E start_ayah \in PartialArgs, end_ayah \in PartialArgs :
        /\ call' = [op |-> "get_partial_verses", start_ayah |-> start_ayah,
                    end_ayah |-> end_ayah,
                    ret |-> call_get_partial_verses(db, start_ayah, end_ayah)]
        /\ UNCHANGED db

SearchTextQueries == Strings(MaxQueryLen - 1)

SearchText ==
    /\ call = Idle
    /\ \E query \in SearchTextQueries, normalized \in BOOLEAN :
        /\ call' = [op |-> "search_text", query |-> query, normalized |-> normalized,
                    ret |-> Returned(search_text(db, query, normalized))]
        /\ UNCHANGED db

MaxTextLen == 5

TextChars == {"a", "w", "X", "'", " ", "\t"}

\* every str of at most MaxTextLen characters over TextChars
Texts == UNION {[1..k -> TextChars] : k \in 0..MaxTextLen}

\* text_utils.normalize_arabic_text(text)
NormalizeArabicText ==
    /\ call = Idle
    /\ \E text \in Texts :
        /\ call' = [op |-> "normalize_arabic_text", text |-> text,
                    ret |-> normalize_arabic_text(text)]
        /\ UNCHANGED db

Next == AddVerse \/ FinalizeCache \/ Return

Spec == Init /\ [][Next]_vars

NextFuzzy == FuzzySearch \/ Return

SpecFuzzy == InitLoaded /\ [][NextFuzzy]_vars

NextSliding == SearchSlidingWindow \/ SlidingWindowMultiAyahSearch \/ Return

SpecSliding == InitLoaded /\ [][NextSliding]_vars

NextSmart == SmartSearch \/ Return

SpecSmart == InitLoaded /\ [][NextSmart]_vars

\* every search of the package over the loaded database
NextSearch ==
    \/ FuzzySearch
    \/ SearchSlidingWindow
    \/ SlidingWindowMultiAyahSearch
    \/ SmartSearch
    \/ Return

SpecSearch == InitLoaded /\ [][NextSearch]_vars

\* a database loaded in any order, finalized or not, and the lookups on it
NextDb ==
    \/ LoadVerse
    \/ FinalizeCache
    \/ GetVerse
    \/ GetSurah
    \/ GetSurahVerses
    \/ GetAllVerses
    \/ GetPartialVerses
    \/ SearchText
    \/ Return

SpecDb == Init /\ [][NextDb]_vars

\* every query of the package over the loaded database
NextQueries ==
    \/ GetVerse
    \/ GetSurah
    \/ GetSurahVerses
    \/ GetAllVerses
    \/ GetPartialVerses
    \/ SearchText
    \/ FuzzySearch
    \/ SearchSlidingWindow
    \/ SlidingWindowMultiAyahSearch
    \/ SmartSearch
    \/ Return

SpecQueries == InitQueries /\ [][NextQueries]_vars

NextLong == SearchSlidingWindowLong \/ Return

SpecLong == InitLoaded /\ [][NextLong]_vars

(***************************************************************************)
(* QuranChapter: the verse count and the chapter's verses                  *)
(***************************************************************************)
\* QuranChapter.has_basmala, for the chapter's ayahs dict
has_basmala(ayahs) == 0 \in DOMAIN ayahs /\ ayahs[0].is_basmalah

\* QuranChapter.get_verse_count
chapter_get_verse_count(ayahs, include_basmalah) ==
    LET total == Cardinality(DOMAIN ayahs)
    IN  IF ~include_basmalah /\ has_basmala(ayahs) THEN total - 1 ELSE total

\* QuranChapter.__len__
chapter_len(ayahs) == chapter_get_verse_count(ayahs, FALSE)

\* the surah-info endpoint: get_surah, then get_verse_count() and has_basmala()
SurahInfo ==
    /\ call = Idle
    /\ \E surah_number \in SurahNumbers :
        /\ call' = [op |-> "get_surah_info", surah_number |-> surah_number,
                    ret |-> IF get_surah_raises(db, surah_number) THEN Raised
                            ELSE LET surah == get_surah(db, surah_number)
                                 IN  Returned(
                                       [verse_count |->
                                            chapter_get_verse_count(surah.ayahs, FALSE),
                                        len |-> chapter_len(surah.ayahs),
                                        has_basmala |-> has_basmala(surah.ayahs)])]
        /\ UNCHANGED db

NextChapter == LoadVerse \/ SurahInfo \/ GetSurahVerses \/ Return

SpecChapter == Init /\ [][NextChapter]_vars

(***************************************************************************)
(* The command-line front end (cli.py): the commands that take a threshold *)
(***************************************************************************)
\* float("nan"), which click's float type accepts: every < and > with it is
\* false, which is what RLess gives for a zero denominator
NaN == <<0, 0>>

\* the test a command makes of a threshold: threshold < lo or threshold > hi
threshold_out_of_range(threshold, lo, hi) == RLess(threshold, lo) \/ RLess(hi, threshold)

\* click.echo("Error: ...", err=True); sys.exit(1) before anything is searched
cli_rejected == [exit_code |-> 1, error |-> TRUE, called |-> <<>>, count |-> 0]

\* the command ran the core function named and printed count results
cli_ran(name, count) == [exit_code |-> 0, error |-> FALSE, called |-> <<name>>, count |-> count]

\* the core function named raised: except Exception echoes the error and exits 1
cli_failed(name) == [exit_code |-> 1, error |-> TRUE, called |-> <<name>>, count |-> 0]

\* fuzzy_search_cmd: the set of possible outcomes
fuzzy_search_cmd(d, query, threshold, normalized, limit) ==
    IF threshold_out_of_range(threshold, <<0, 1>>, <<1, 1>>) THEN {cli_rejected}
    ELSE {cli_ran("fuzzy_search",
                  Len(fuzzy_search(d, query, threshold, normalized, limit)))}

\* sliding_window_search_cmd: the set of possible outcomes
sliding_window_search_cmd(d, query, threshold, normalized, limit) ==
    IF threshold_out_of_range(threshold, <<0, 1>>, <<100, 1>>) THEN {cli_rejected}
    ELSE {IF o.raises THEN cli_failed("search_sliding_window")
          ELSE cli_ran("search_sliding_window", Len(o.results))
          : o \in search_sliding_window(d, query, threshold, normalized, limit)}

\* smart_search_cmd: the set of possible outcomes
smart_search_cmd(d, query, fuzzy_threshold, sliding_threshold, normalized, limit) ==
    IF threshold_out_of_range(fuzzy_threshold, <<0, 1>>, <<1, 1>>) THEN {cli_rejected}
    ELSE IF threshold_out_of_range(sliding_threshold, <<0, 1>>, <<100, 1>>)
    THEN {cli_rejected}
    ELSE {cli_ran("smart_search", r.count)
          : r \in smart_search(d, query, fuzzy_threshold, sliding_threshold,
                               normalized, limit)}

\* the arguments the commands are run with
CliQueries == {<<" ">>, <<"a">>, <<"b", " ", "a">>}

CliLimits == {None, Some(1)}

CliFuzzyThresholds == {NaN, <<-1, 10>>, <<0, 1>>, <<7, 10>>, <<1, 1>>, <<3, 2>>}

CliSlidingThresholds == {NaN, <<-1, 10>>, <<0, 1>>, <<80, 1>>, <<100, 1>>, <<1001, 10>>}

FuzzySearchCmd ==
    /\ call = Idle
    /\ \E query \in CliQueries, threshold \in CliFuzzyThresholds, normalized \in BOOLEAN,
           limit \in CliLimits :
            \E o \in fuzzy_search_cmd(db, query, threshold, normalized, limit) :
                /\ call' = [op |-> "fuzzy_search_cmd", query |-> query,
                            fuzzy_threshold |-> threshold, sliding_threshold |-> <<80, 1>>,
                            normalized |-> normalized, limit |-> limit, ret |-> o]
                /\ UNCHANGED db

SlidingWindowSearchCmd ==
    /\ call = Idle
    /\ \E query \in CliQueries, threshold \in CliSlidingThresholds, normalized \in BOOLEAN,
           limit \in CliLimits :
            \E o \in sliding_window_search_cmd(db, query, threshold, normalized, limit) :
                /\ call' = [op |-> "sliding_window_search_cmd", query |-> query,
                            fuzzy_threshold |-> <<7, 10>>, sliding_threshold |-> threshold,
                            normalized |-> normalized, limit |-> limit, ret |-> o]
                /\ UNCHANGED db

SmartSearchCmd ==
    /\ call = Idle
    /\ \E query \in CliQueries, fuzzy_threshold \in CliFuzzyThresholds,
           sliding_threshold \in CliSlidingThresholds, normalized \in BOOLEAN,
           limit \in CliLimits :
            \E o \in smart_search_cmd(db, query, fuzzy_threshold, sliding_threshold,
                                      normalized, limit) :
                /\ call' = [op |-> "smart_search_cmd", query |-> query,
                            fuzzy_threshold |-> fuzzy_threshold,
                            sliding_threshold |-> sliding_threshold,
                            normalized |-> normalized, limit |-> limit, ret |-> o]
                /\ UNCHANGED db

NextCli == FuzzySearchCmd \/ SlidingWindowSearchCmd \/ SmartSearchCmd \/ Return

SpecCli == InitLoaded /\ [][NextCli]_vars

(***************************************************************************)
(* The cursor loop of sliding_window_multi_ayah_search, one iteration a    *)
(* step.  The call in hand holds the loop's variables.                     *)
(***************************************************************************)
\* what the loop works on when the verses are passed (no cache)
loop_context(query, verses, threshold, normalized, max_results) ==
    [search_query  |-> SearchQuery(query, normalized),
     text_segments |-> SegmentsOf(verses, normalized),
     verse_map     |-> VerseMapOf(verses, normalized),
     full_text     |-> Join(SegmentsOf(verses, normalized)),
     offsets       |-> word_char_offsets(SegmentsOf(verses, normalized)),
     threshold     |-> threshold,
     max_results   |-> max_results]

\* start_char = match_end_char, with the cursor left where it is
advance_stays(start_char, match_end_char) == start_char

\* start_char = match_end_char
advance(start_char, match_end_char) == match_end_char

\* One pass of "while start_char < text_len": the loop's variables after it, for
\* every alignment rapidfuzz may report.  branch names the way the pass ended,
\* match_start_char and match_end_char are those of the pass.
loop_iteration(c, st) ==
    IF ~(st.start_char < Len(c.full_text))
    THEN {[st EXCEPT !.done = TRUE, !.branch = "exhausted"]}
    ELSE {IF RLess(alignment.score, c.threshold)
          THEN [st EXCEPT !.done = TRUE, !.branch = "below_threshold",
                          !.iterations = @ + 1]
          ELSE LET b == BuildMatch(c, st.start_char, alignment)
               IN  IF b.raises
                   THEN [st EXCEPT !.done = TRUE, !.raises = TRUE, !.branch = "raised",
                                   !.iterations = @ + 1]
                   ELSE IF range_key(b.match) \in st.seen_ranges
                   THEN [st EXCEPT !.start_char = advance(@, b.match_end_char),
                                   !.match_start_char =
                                       st.start_char + alignment.dest_start,
                                   !.match_end_char = b.match_end_char,
                                   !.branch = "seen", !.iterations = @ + 1]
                   ELSE [st EXCEPT !.start_char = advance(@, b.match_end_char),
                                   !.match_start_char =
                                       st.start_char + alignment.dest_start,
                                   !.match_end_char = b.match_end_char,
                                   !.seen_ranges = @ \cup {range_key(b.match)},
                                   !.results = Append(@, b.match),
                                   !.done = Truthy(c.max_results)
                                              /\ Len(st.results) + 1 >= c.max_results.n,
                                   !.branch = "emitted", !.iterations = @ + 1]
          : alignment \in
              partial_ratio_alignment(c.search_query,
                                      Slice(c.full_text, st.start_char, Len(c.full_text)))}

\* the public search reaches the loop: start_char = 0, no result yet
EnterLoop ==
    /\ call = Idle
    /\ \E query \in Queries, threshold \in SlidingThresholds, normalized \in BOOLEAN,
           max_results \in MaxResultsArgs :
            LET c == loop_context(query, get_all_verses(db), threshold, normalized,
                                  max_results)
            IN  /\ Strip(query) # <<>>
                /\ get_all_verses(db) # <<>>
                /\ c.search_query # <<>>
                /\ c.text_segments # <<>>
                /\ call' = [op |-> "cursor_loop", query |-> query,
                            threshold |-> threshold, normalized |-> normalized,
                            max_results |-> max_results, text_len |-> Len(c.full_text),
                            start_char |-> 0, match_start_char |-> 0,
                            match_end_char |-> 0, results |-> <<>>, seen_ranges |-> {},
                            iterations |-> 0, branch |-> "entered", done |-> FALSE,
                            raises |-> FALSE]
    /\ UNCHANGED db

InLoop == call.op = "cursor_loop"

LoopIteration ==
    /\ InLoop
    /\ ~call.done
    /\ call' \in loop_iteration(loop_context(call.query, get_all_verses(db),
                                              call.threshold, call.normalized,
                                              call.max_results), call)
    /\ UNCHANGED db

\* the loop is left: the function sorts the results and returns
LoopReturn ==
    /\ InLoop
    /\ call.done
    /\ call' = Idle
    /\ UNCHANGED db

NextLoop == EnterLoop \/ LoopIteration \/ LoopReturn

SpecLoop == InitLoaded /\ [][NextLoop]_vars

\* the verses the cached path of sliding_window_multi_ayah_search looks up
cached_ref_verses(d) ==
    [i \in 1..Len(d.sorted_ayahs_ref_list) |->
        get_verse(d, d.sorted_ayahs_ref_list[i][1], d.sorted_ayahs_ref_list[i][2])]

\* text_segments on the cached path: the database's word list, rebuilt from the
\* referenced verses when it is empty
cached_text_segments(d, normalized) ==
    LET cached == IF normalized THEN d.corpus_words_list_normalized
                  ELSE d.corpus_words_list
    IN  IF cached # <<>> THEN cached ELSE SegmentsOf(cached_ref_verses(d), normalized)

\* verse_map on the cached path
cached_verse_map(d, normalized) == VerseMapOf(cached_ref_verses(d), normalized)

\* QuranDatabase.get_verse_count
get_verse_count(d, include_basmalah) ==
    IF include_basmalah THEN d.total_verses ELSE d.total_verses_without_basmalah

NextRefine == RefineSlidingWindowResult \/ Return

SpecRefine == InitLoaded /\ [][NextRefine]_vars

\* a verse of three words, for a query whose last characters are found in a
\* word before the one its first characters are found in
Corpus5 == <<QuranVerse(1, 1, <<"a", "a", " ", "b", " ", "b", "b">>, FALSE)>>

InitAbsorb ==
    /\ db \in LoadedDatabases
                \cup {load_quran_data(EmptyDatabase, Corpus5),
                      finalize_cache(load_quran_data(EmptyDatabase, Corpus5))}
    /\ call = Idle

SpecAbsorb == InitAbsorb /\ [][NextRefine]_vars

NextNormalize == NormalizeArabicText \/ Return

SpecNormalize == Init /\ [][NextNormalize]_vars

(***************************************************************************)
(* Properties of smart_search, checked under SpecSmart                     *)
(***************************************************************************)
IsSmartCall == call.op = "smart_search"

\* what the exact matcher returns for the query of the call in hand
ExactOfCall == search_text(db, call.query, call.normalized)

\* what the fuzzy matcher returns for the query of the call in hand
FuzzyOfCall ==
    fuzzy_search(db, call.query, call.threshold, call.normalized, call.max_results)

\* the lists the sliding-window matcher can return for the query of the call in hand
SlidingOfCall ==
    {o.results : o \in search_sliding_window(db, call.query, call.sliding_threshold,
                                             call.normalized, call.max_results)}

\* the first n entries of a list, n being a cap that was passed (None: the whole list)
Capped(results, max_results) ==
    IF max_results.given THEN PyPrefix(results, max_results.n) ELSE results

\* C1: for a non-blank query whose exact search is non-empty, smart_search reports
\* method 'exact', its results are those of search_text truncated to the first
\* max_results when max_results is given, and no other matcher is run.
C1_ExactPriority ==
    (IsSmartCall /\ ~IsBlank(call.query) /\ ExactOfCall # <<>>) =>
        /\ call.ret.method = "exact"
        /\ call.ret.results = Capped(ExactOfCall, call.max_results)
        /\ call.ret.tried = <<"exact">>

C3_BlankQuery ==
    (IsSmartCall /\ IsBlank(call.query)) =>
        /\ call.ret.method = "none"
        /\ call.ret.results = <<>>
        /\ call.ret.count = 0
        /\ call.ret.tried = <<>>

\* a whitespace-only query was answered, over a database whose verses contain
\* whitespace (so that an exact search for it would have matched)
C3_Witness ==
    /\ IsSmartCall
    /\ call.query # <<>>
    /\ IsBlank(call.query)
    /\ ExactOfCall # <<>>
    /\ call.ret.method = "none"

(***************************************************************************)
(* Properties of the sliding-window matcher, checked under SpecSliding     *)
(***************************************************************************)
\* a sliding-window search returned a list (no exception escaped)
SlidingReturned ==
    /\ call.op \in {"search_sliding_window", "sliding_window_multi_ayah_search"}
    /\ ~call.ret.raises

\* number of words of the flattened stream that precede verse (surah, ayah)
StreamOffset(verses, normalized, surah, ayah) ==
    LET idx == FirstIndex(verses, <<surah, ayah>>) IN
    Len(SegmentsOf(Slice(verses, 0, idx - 1), normalized))

\* the words of the flattened stream a match reports, from start word to end word
StreamWords(m, verses, normalized) ==
    (StreamOffset(verses, normalized, m.start_surah, m.start_ayah) + m.start_word)
    .. (StreamOffset(verses, normalized, m.end_surah, m.end_ayah) + m.end_word - 1)

\* C4: the list a sliding-window search returns is sorted by similarity,
\* descending, for every query, threshold and max_results, also when the top
\* match was replaced by its boundary-refined version.
C4_SortedDescending ==
    SlidingReturned =>
        \A i \in 1..(Len(call.ret.results) - 1) :
            RLeq(call.ret.results[i + 1].similarity, call.ret.results[i].similarity)

\* a list of two or more matches of different similarity whose top match got
\* refined boundaries, the better match having been found after a worse one
C4_Witness ==
    /\ SlidingReturned
    /\ call.ret.replaced
    /\ Len(call.ret.results) >= 2
    /\ RLess(call.ret.results[2].similarity, call.ret.results[1].similarity)
    /\ \E o \in SlidingLoop([search_query  |-> SearchQuery(call.query, call.normalized),
                             text_segments |-> SegmentsOf(get_all_verses(db), call.normalized),
                             verse_map     |-> VerseMapOf(get_all_verses(db), call.normalized),
                             full_text     |-> Join(SegmentsOf(get_all_verses(db),
                                                               call.normalized)),
                             offsets       |-> word_char_offsets(
                                                   SegmentsOf(get_all_verses(db),
                                                              call.normalized)),
                             threshold     |-> call.threshold,
                             max_results   |-> call.max_results], 0, <<>>, {}, <<>>) :
           /\ o.cursors = call.ret.cursors
           /\ Len(o.results) >= 2
           /\ RLess(o.results[1].similarity, o.results[2].similarity)

\* C5: no two matches returned by one sliding-window search have the same
\* boundary (start_surah, start_ayah, start_word, end_surah, end_ayah, end_word),
\* also after the top match's boundaries were replaced by refinement.
C5_NoDuplicateBoundary ==
    SlidingReturned =>
        \A i, j \in 1..Len(call.ret.results) :
            i # j => range_key(call.ret.results[i]) # range_key(call.ret.results[j])

\* C6: the matches returned by one sliding-window search do not overlap: the
\* ranges of flattened-stream words of two distinct matches are disjoint.
C6_NoOverlap ==
    SlidingReturned =>
        \A i, j \in 1..Len(call.ret.results) :
            i # j =>
                StreamWords(call.ret.results[i], get_all_verses(db), call.normalized)
                \cap StreamWords(call.ret.results[j], get_all_verses(db), call.normalized)
                = {}

(***************************************************************************)
(* Properties of the scores, the fuzzy matcher and the result cap          *)
(***************************************************************************)
IsFuzzyCall == call.op = "fuzzy_search"

\* the tokens of the verse text a fuzzy result was searched in
SearchedWords(result) == Split(SearchedText(result.verse, call.normalized))

C8_ValidSpan ==
    IsFuzzyCall =>
        \A i \in 1..Len(call.ret) :
            LET r == call.ret[i] IN
            /\ 0 <= r.start_word
            /\ r.start_word < r.end_word
            /\ r.end_word <= Len(SearchedWords(r))
            /\ r.matched_text = Join(Slice(SearchedWords(r), r.start_word, r.end_word))

\* C9: fuzzy_search returns at most one result per verse, sorted by similarity
\* descending; when max_results is given the list has at most max_results
\* entries and is the first max_results entries of the list returned without a
\* cap.
C9_OnePerVerseSortedCapped ==
    IsFuzzyCall =>
        /\ \A i, j \in 1..Len(call.ret) :
              i # j => call.ret[i].verse # call.ret[j].verse
        /\ \A i \in 1..(Len(call.ret) - 1) :
              RLeq(call.ret[i + 1].similarity, call.ret[i].similarity)
        /\ call.max_results.given =>
              /\ Len(call.ret) <= call.max_results.n
              /\ call.ret = PyPrefix(fuzzy_search(db, call.query, call.threshold,
                                                  call.normalized, None),
                                     call.max_results.n)

\* C10: whenever max_results is given, a sliding-window search returns at most
\* max_results matches and smart_search at most max_results results, whichever
\* strategy produced them.
C10_ResultCap ==
    /\ (SlidingReturned /\ call.max_results.given) =>
          Len(call.ret.results) <= call.max_results.n
    /\ (IsSmartCall /\ call.max_results.given) =>
          /\ Len(call.ret.results) <= call.max_results.n
          /\ call.ret.count <= call.max_results.n

(***************************************************************************)
(* Properties of the database lookups, checked under SpecDb                *)
(***************************************************************************)
IsPartialCall == call.op = "get_partial_verses"

\* (c1, o1) <= (c2, o2) in canonical order
CoordLeq(x, y) == x[1] < y[1] \/ (x[1] = y[1] /\ x[2] <= y[2])

\* both arguments of the call in hand are 2-tuples naming stored verses
PartialArgsExist ==
    /\ is_2_tuple(call.start_ayah)
    /\ is_2_tuple(call.end_ayah)
    /\ ~get_verse_raises(db, call.start_ayah.items[1], call.start_ayah.items[2])
    /\ ~get_verse_raises(db, call.end_ayah.items[1], call.end_ayah.items[2])

\* C11: for stored coordinates (c1, o1) <= (c2, o2), get_partial_verses returns
\* exactly the contiguous run of get_all_verses() from verse (c1, o1) to verse
\* (c2, o2) inclusive, in canonical order, also across chapter boundaries; its
\* first element is get_verse(c1, o1) and its last is get_verse(c2, o2).
C11_ContiguousRun ==
    (IsPartialCall /\ PartialArgsExist
       /\ CoordLeq(call.start_ayah.items, call.end_ayah.items)) =>
        LET start == call.start_ayah.items
            end   == call.end_ayah.items
            all   == get_all_verses(db)
            i     == FirstIndex(all, start)
            j     == FirstIndex(all, end)
        IN  /\ ~call.ret.raises
            /\ i > 0 /\ i <= j
            /\ call.ret.ret = SubSeq(all, i, j)
            /\ Head(call.ret.ret) = get_verse(db, start[1], start[2])
            /\ call.ret.ret[Len(call.ret.ret)] = get_verse(db, end[1], end[2])

\* a range from chapter 1 to chapter 3 over a stored chapter 2, the chapters
\* having been added out of order
C11_Witness ==
    /\ IsPartialCall /\ PartialArgsExist
    /\ call.start_ayah.items[1] = 1
    /\ call.end_ayah.items[1] = 3
    /\ 2 \in DOMAIN db.surahs
    /\ db.surahs_keys # sorted(DOMAIN db.surahs)
    /\ Len(call.ret.ret) = 3

\* C12: get_partial_verses fails with ValueError, returns no partial list and
\* leaves the database unchanged whenever start sorts after end, a chapter or
\* an ordinal of either endpoint is not stored, or either argument is not a
\* 2-tuple; in every other case, start = end included, it returns a list.
C12_PartialVersesRaises ==
    [][IsPartialCall' =>
          /\ db' = db
          /\ (call'.ret = Raised) <=>
                 (~PartialArgsExist'
                    \/ ~CoordLeq(call'.start_ayah.items, call'.end_ayah.items))
          /\ (call'.ret # Raised) =>
                 (~call'.ret.raises /\ DOMAIN call'.ret = {"raises", "ret"})]_vars

\* two stored verses passed with the later one first: the call raised
C12_Witness ==
    /\ IsPartialCall /\ PartialArgsExist
    /\ ~CoordLeq(call.start_ayah.items, call.end_ayah.items)
    /\ call.ret = Raised

IsSearchTextCall == call.op = "search_text"

\* the verses the database stores
StoredVerses == {db.surahs[s][a] : <<s, a>> \in
                    UNION {{<<s, a>> : a \in DOMAIN db.surahs[s]} : s \in DOMAIN db.surahs}}

\* the elements of a list
Elements(list) == {list[i] : i \in 1..Len(list)}

\* C13: search_text(q, normalized) returns exactly the stored verses whose
\* searched text (text_normalized if normalized, else text) contains q as a
\* literal substring: every returned verse contains q, every stored verse that
\* contains q is returned, and no verse is returned twice.
C13_ExactSubstring ==
    IsSearchTextCall =>
        LET ret == call.ret.ret
        IN  /\ Elements(ret) =
                  {v \in StoredVerses :
                      Contains(SearchedText(v, call.normalized), call.query)}
            /\ \A i, j \in 1..Len(ret) : ret[i] = ret[j] => i = j

\* a search of the normalized text that returned a verse whose text with
\* diacritics does not contain the query, and left another stored verse out
C13_Witness ==
    /\ IsSearchTextCall
    /\ call.normalized
    /\ call.query # <<>>
    /\ \E v \in Elements(call.ret.ret) : ~Contains(v.text, call.query)
    /\ StoredVerses \ Elements(call.ret.ret) # {}

\* the coordinate of a verse
CoordOf(v) == <<v.surah_number, v.ayah_number>>

\* a list of verses in canonical order: chapter ascending, ordinal ascending
\* within a chapter, no coordinate twice
InCanonicalOrder(list) ==
    \A i, j \in 1..Len(list) :
        i < j => (CoordLeq(CoordOf(list[i]), CoordOf(list[j]))
                    /\ CoordOf(list[i]) # CoordOf(list[j]))

\* C14: the verses search_text returns are in canonical corpus order (chapter
\* ascending, ordinal ascending within a chapter), for every order in which the
\* verses and chapters were added to the database.
C14_SearchTextCanonicalOrder == IsSearchTextCall => InCanonicalOrder(call.ret.ret)

IsGetAllVersesCall == call.op = "get_all_verses"

\* get_all_verses takes the cached path on this database
CachedPath(d) == d.cache_enabled /\ d.sorted_ayahs_ref_list # <<>>

\* C15: on a database on which finalize_cache is called only after all verses
\* were added, or not at all, get_all_verses returns every stored verse exactly
\* once in canonical order, and the path over the cached references and the
\* path that sorts on demand return the same list.
C15_GetAllVersesPaths ==
    IsGetAllVersesCall =>
        LET ret == call.ret.ret
        IN  /\ Elements(ret) = StoredVerses
            /\ InCanonicalOrder(ret)
            /\ get_all_verses(finalize_cache(db)) = ret
            /\ get_all_verses([db EXCEPT !.cache_enabled = FALSE]) = ret

\* get_all_verses answered from the cached references, over chapters that were
\* added out of order
C15_Witness ==
    /\ IsGetAllVersesCall
    /\ CachedPath(db)
    /\ db.surahs_keys # sorted(DOMAIN db.surahs)
    /\ Len(call.ret.ret) = MaxVerses

IsLookupCall == call.op \in {"get_verse", "get_surah", "get_surah_verses"}

\* the stored verses of one chapter
StoredIn(surah_number) == {v \in StoredVerses : v.surah_number = surah_number}

\* what a lookup call has to answer on the database it ran on
LookupAnswer ==
    IF call.op = "get_verse"
    THEN LET hits == {v \in StoredIn(call.surah_number) :
                         v.ayah_number = call.ayah_number}
         IN  IF hits = {} THEN call.ret = Raised
             ELSE ~call.ret.raises /\ call.ret.ret \in hits
    ELSE IF StoredIn(call.surah_number) = {} THEN call.ret = Raised
    ELSE IF call.op = "get_surah"
    THEN /\ ~call.ret.raises
         /\ call.ret.ret.number = call.surah_number
         /\ {call.ret.ret.ayahs[a] : a \in DOMAIN call.ret.ret.ayahs}
                = StoredIn(call.surah_number)
    ELSE /\ ~call.ret.raises
         /\ Elements(call.ret.ret) = StoredIn(call.surah_number)
         /\ InCanonicalOrder(call.ret.ret)

\* C16: get_verse(chapter, ordinal) returns the stored verse with these
\* coordinates when there is one, and otherwise (chapter absent, or ordinal
\* absent in a stored chapter) raises ValueError and leaves the database
\* unchanged; get_surah and get_surah_verses raise in the same way for an
\* absent chapter.
C16_LookupOrValueError ==
    [][IsLookupCall' => (db' = db /\ LookupAnswer')]_vars

\* get_verse raised for an ordinal that is absent in a stored chapter
C16_Witness ==
    /\ call.op = "get_verse"
    /\ StoredIn(call.surah_number) # {}
    /\ call.ret = Raised

(***************************************************************************)
(* Properties of normalize_arabic_text, checked under SpecNormalize        *)
(***************************************************************************)
\* C17: normalize_arabic_text is idempotent: for every string s, strings that
\* mix waw, spaces, tabs and repeated whitespace included,
\* normalize_arabic_text(normalize_arabic_text(s)) = normalize_arabic_text(s).
C17_NormalizeIdempotent ==
    call.op = "normalize_arabic_text" => normalize_arabic_text(call.ret) = call.ret

(***************************************************************************)
(* Properties of all queries together, checked under SpecQueries           *)
(***************************************************************************)
IsQueryCall ==
    call.op \in {"get_verse", "get_surah", "get_surah_verses", "get_all_verses",
                 "get_partial_verses", "search_text", "fuzzy_search",
                 "search_sliding_window", "sliding_window_multi_ayah_search",
                 "smart_search"}

\* the two entry points of the sliding-window search
IsSlidingCall == call.op \in {"search_sliding_window", "sliding_window_multi_ayah_search"}

\* what the call c (a lookup, search_text, fuzzy_search or smart_search) can
\* return when it is the only call made on database d
ResultsAlone(d, c) ==
    CASE c.op = "get_verse" ->
             {IF get_verse_raises(d, c.surah_number, c.ayah_number) THEN Raised
              ELSE Returned(get_verse(d, c.surah_number, c.ayah_number))}
      [] c.op = "get_surah" ->
             {IF get_surah_raises(d, c.surah_number) THEN Raised
              ELSE Returned(get_surah(d, c.surah_number))}
      [] c.op = "get_surah_verses" ->
             {IF get_surah_raises(d, c.surah_number) THEN Raised
              ELSE Returned(get_surah_verses(d, c.surah_number))}
      [] c.op = "get_all_verses" -> {Returned(get_all_verses(d))}
      [] c.op = "get_partial_verses" ->
             {call_get_partial_verses(d, c.start_ayah, c.end_ayah)}
      [] c.op = "search_text" -> {Returned(search_text(d, c.query, c.normalized))}
      [] c.op = "fuzzy_search" ->
             {fuzzy_search(d, c.query, c.threshold, c.normalized, c.max_results)}
      [] c.op = "smart_search" ->
             smart_search(d, c.query, c.threshold, c.sliding_threshold, c.normalized,
                          c.max_results)

IsRefineCall == call.op = "refine_sliding_window_result"

\* position x is not after position y in (chapter, ordinal, word) order
PosLeq(x, y) ==
    \/ x[1] < y[1]
    \/ (x[1] = y[1] /\ x[2] < y[2])
    \/ (x[1] = y[1] /\ x[2] = y[2] /\ x[3] <= y[3])

StartPos(m) == <<m.start_surah, m.start_ayah, m.start_word>>

EndPos(m) == <<m.end_surah, m.end_ayah, m.end_word>>

\* C19: refinement only shrinks a match: whenever refine_sliding_window_result
\* returns a match different from the one it was given, the refined start is
\* not earlier than the original start and the refined end is not later than
\* the original end in (chapter, ordinal, word) order, and similarity and
\* query_text are those of the original.
C19_RefinementShrinks ==
    (IsRefineCall /\ call.ret # call.best_match) =>
        /\ PosLeq(StartPos(call.best_match), StartPos(call.ret))
        /\ PosLeq(EndPos(call.ret), EndPos(call.best_match))
        /\ call.ret.similarity = call.best_match.similarity
        /\ call.ret.query_text = call.best_match.query_text

(***************************************************************************)
(* The refinement step of the public search, checked under SpecLong        *)
(***************************************************************************)
\* C20: when the public search_sliding_window is called with a query longer
\* than the refinement length (500 characters in the source) and at least one
\* match is found, the boundary refinement is run on the top match before the
\* results are returned.
C20_PublicSearchRefines ==
    (call.op = "search_sliding_window"
       /\ Len(call.query) > REFINE_QUERY_LEN
       /\ ~call.ret.raises
       /\ call.ret.results # <<>>) => call.ret.refine_called

(***************************************************************************)
(* Failure of the refinement, checked under SpecRefine                     *)
(***************************************************************************)
PosLess(x, y) == PosLeq(x, y) /\ x # y

\* the boundaries the two probes found: the start of the first probe's top
\* match and the exclusive end of the second probe's top match
RefinedStartPos == StartPos(call.refined_start_results[1])

RefinedEndPos == EndPos(call.refined_end_results[1])

ProbesAnswered == call.refined_start_results # <<>> /\ call.refined_end_results # <<>>

\* the refined range is invalid: its start lies after its exclusive end
RefinedRangeInvalid == ProbesAnswered /\ PosLess(RefinedEndPos, RefinedStartPos)

\* C21: when a probe returns no result, a boundary verse is not located (no
\* probe is run), an exception is caught, or the refined start lies after the
\* refined end, refine_sliding_window_result returns the match it was given.
C21_RefinementFailureAbsorbed ==
    (IsRefineCall /\ (\/ call.probes = 0
                      \/ call.caught
                      \/ ~ProbesAnswered
                      \/ RefinedRangeInvalid)) => call.ret = call.best_match

(***************************************************************************)
(* The shape of the matches returned, checked under SpecSliding            *)
(***************************************************************************)
\* a MultiAyahMatch whose verses and boundaries agree
WellFormedMatch(m) ==
    /\ m.verses # <<>>
    /\ \A i, j \in 1..Len(m.verses) :
          i < j => CoordOf(m.verses[i]) # CoordOf(m.verses[j])
    /\ InCanonicalOrder(m.verses)
    /\ CoordOf(m.verses[1]) = <<m.start_surah, m.start_ayah>>
    /\ CoordOf(m.verses[Len(m.verses)]) = <<m.end_surah, m.end_ayah>>
    /\ PosLess(StartPos(m), EndPos(m))

\* C22: every match returned by sliding_window_multi_ayah_search, refined or
\* not, has a non-empty verses list without repetition and in canonical order
\* that begins with the start verse and ends with the end verse, and its start
\* position is strictly before its exclusive end position.
C22_MatchesWellFormed ==
    (IsSlidingCall /\ ~call.ret.raises) =>
        \A i \in 1..Len(call.ret.results) : WellFormedMatch(call.ret.results[i])

(***************************************************************************)
(* The verse count of a chapter, checked under SpecChapter                 *)
(***************************************************************************)
IsSurahInfoCall == call.op = "get_surah_info" /\ ~call.ret.raises

\* C23: for every chapter, the verse count reported (len(chapter), the
\* verse_count of the surah-info endpoint) equals the number of verses that
\* get_surah_verses lists for it.
C23_CountEqualsListed ==
    IsSurahInfoCall =>
        /\ call.ret.ret.len = Len(get_surah_verses(db, call.surah_number))
        /\ call.ret.ret.verse_count = Len(get_surah_verses(db, call.surah_number))

(***************************************************************************)
(* Thresholds of the command line, checked under SpecCli                   *)
(***************************************************************************)
IsCliCall == call.op \in {"fuzzy_search_cmd", "sliding_window_search_cmd", "smart_search_cmd"}

\* t is a number of the closed interval [lo, hi]
InBound(t, lo, hi) == t[2] # 0 /\ RLeq(lo, t) /\ RLeq(t, hi)

\* the call in hand was given a threshold outside its documented bound: the
\* fields of a threshold the command does not take hold its default
ThresholdOutside ==
    \/ ~InBound(call.fuzzy_threshold, <<0, 1>>, <<1, 1>>)
    \/ ~InBound(call.sliding_threshold, <<0, 1>>, <<100, 1>>)

\* C24: a command given a threshold outside its documented bound ([0,1] for
\* the fuzzy threshold, [0,100] for the sliding threshold) prints an error,
\* exits with code 1 and calls no core search function.
C24_ThresholdRejected ==
    (IsCliCall /\ ThresholdOutside) =>
        (call.ret.exit_code = 1 /\ call.ret.error /\ call.ret.called = <<>>)

(***************************************************************************)
(* Termination of the cursor loop, checked under SpecLoop                  *)
(***************************************************************************)
\* C25: every pass of the cursor loop either leaves the loop or strictly
\* increases start_char, whether a match is emitted or an already seen range is
\* skipped, and the loop makes at most len(full_text) passes.
C25_CursorAdvances ==
    [][(InLoop /\ InLoop') =>
          /\ (call'.done \/ call'.start_char > call.start_char)
          /\ call'.iterations <= call'.text_len]_vars

\* the loop skipped a range it had seen and went on, at threshold 0
C25_Witness ==
    /\ InLoop
    /\ call.threshold = <<0, 1>>
    /\ call.branch = "seen"
    /\ call.iterations >= 2
    /\ ~call.done

(***************************************************************************)
(* The depth of the refinement, checked under SpecRefine                   *)
(***************************************************************************)
\* C26: the probe searches that refine_sliding_window_result issues never run
\* the refinement themselves, so one refinement makes at most two inner
\* searches in all.
C26_RefinementDepthOne ==
    IsRefineCall => (~call.probe_refine_called /\ call.probes <= 2)

\* a refinement whose two probe searches ran and both found a match
C26_Witness == IsRefineCall /\ call.probes = 2 /\ ProbesAnswered /\ ~call.caught

(***************************************************************************)
(* From characters to words, checked under SpecLoop                        *)
(***************************************************************************)
\* the tokens of the word stream the call in hand searches, and their verses
StreamVerses == get_all_verses(db)

StreamTokens == SegmentsOf(StreamVerses, call.normalized)

WordCount(i) == Len(Split(SearchedText(StreamVerses[i], call.normalized)))

RECURSIVE WordsBefore(_)
WordsBefore(i) == IF i <= 1 THEN 0 ELSE WordsBefore(i - 1) + WordCount(i - 1)

\* the start offset of token k (from 0) in the space-joined stream
RECURSIVE TokenOffset(_)
TokenOffset(k) ==
    IF k = 0 THEN 0 ELSE TokenOffset(k - 1) + Len(StreamTokens[k]) + 1

\* the last token whose start offset is at most x
LastTokenAt(x) ==
    CHOOSE k \in 0..(Len(StreamTokens) - 1) :
        /\ TokenOffset(k) <= x
        /\ \A j \in 0..(Len(StreamTokens) - 1) : TokenOffset(j) <= x => j <= k

\* the word-origin of token k: its chapter, its ordinal and its index in the verse
WordOrigin(k) ==
    LET i == CHOOSE v \in 1..Len(StreamVerses) :
                 WordsBefore(v) <= k /\ k < WordsBefore(v) + WordCount(v)
    IN  <<StreamVerses[i].surah_number, StreamVerses[i].ayah_number, k - WordsBefore(i)>>

\* C27: a match built for the alignment [match_start, match_end) starts at the
\* word-origin of the last token that starts at or before match_start, ends at
\* the word-origin of the last token that starts at or before match_end - 1
\* (end_word being that token's index in its verse plus 1), the start token is
\* not after the end token, and matched_text is the tokens from the one to the
\* other joined by single spaces.
C27_CharToWord ==
    (InLoop /\ call.branch = "emitted") =>
        LET m  == call.results[Len(call.results)]
            st == LastTokenAt(call.match_start_char)
            et == LastTokenAt(call.match_end_char - 1)
        IN  /\ st <= et
            /\ StartPos(m) = WordOrigin(st)
            /\ <<m.end_surah, m.end_ayah, m.end_word - 1>> = WordOrigin(et)
            /\ m.matched_text = Join(SubSeq(StreamTokens, st + 1, et + 1))

\* a match that starts inside a token other than the first and ends in a later one
C27_Witness ==
    /\ InLoop
    /\ call.branch = "emitted"
    /\ LastTokenAt(call.match_start_char) > 0
    /\ TokenOffset(LastTokenAt(call.match_start_char)) < call.match_start_char
    /\ LastTokenAt(call.match_start_char) < LastTokenAt(call.match_end_char - 1)

(***************************************************************************)
(* The verse counters, checked under Spec                                  *)
(***************************************************************************)
\* C28: after any sequence of add_verse calls, a verse added at coordinates
\* already stored included, total_verses is the number of verses stored and
\* total_verses_without_basmalah the number of stored verses that are not a
\* Basmala; before finalize_cache the former is len(get_all_verses()).
C28_CountersMatchStored ==
    /\ get_verse_count(db, TRUE) = Cardinality(StoredVerses)
    /\ get_verse_count(db, FALSE) = Cardinality({v \in StoredVerses : ~v.is_basmalah})
    /\ ~db.cache_enabled => get_verse_count(db, TRUE) = Len(get_all_verses(db))

(***************************************************************************)
(* The derived structures, checked under Spec                              *)
(***************************************************************************)
\* use_cache of a search over the whole database
UseCache == db.cache_enabled /\ db.corpus_words_list # <<>>

\* word i of the list is the word that entry i of the map names
MapNamesWords(words, map, normalized) ==
    /\ Len(words) = Len(map)
    /\ \A i \in 1..Len(map) :
          /\ i <= Len(words)
          /\ map[i][2] < Len(Split(SearchedText(map[i][1], normalized)))
          /\ Split(SearchedText(map[i][1], normalized))[map[i][2] + 1] = words[i]

GetAllVersesIsStored ==
    /\ Elements(get_all_verses(db)) = StoredVerses
    /\ Len(get_all_verses(db)) = Cardinality(StoredVerses)

CachedPathAgrees ==
    UseCache =>
        \A normalized \in BOOLEAN :
            MapNamesWords(cached_text_segments(db, normalized),
                          cached_verse_map(db, normalized), normalized)

\* C29: after add_verse and finalize_cache calls in any order, get_all_verses
\* returns exactly the verses stored, and on the cached path of the sliding
\* window search the word list and the word-to-verse map have the same length
\* and entry i of the map names the verse and the index in it of word i.
C29_DerivedStructuresAgree == GetAllVersesIsStored /\ CachedPathAgrees

\* C29 (amended): after every sequence of add_verse and finalize_cache calls
\* in which no add_verse follows a finalize_cache (no finalize_cache was made
\* yet, or the last call made was finalize_cache) the derived structures
\* agree with the stored verses.
C29_AgreeWhenNoAddAfterFinalize ==
    (call.op = "finalize_cache" \/ ~db.cache_enabled) => C29_DerivedStructuresAgree

\* the cache built over two chapters after a verse was added twice: the
\* cached path is the one a search over the whole database takes
C29_Witness ==
    /\ call.op = "finalize_cache"
    /\ UseCache
    /\ Cardinality(StoredVerses) >= 2
    /\ Len(db.surahs_keys) >= 2
    /\ db.total_verses > Cardinality(StoredVerses)
    /\ C29_DerivedStructuresAgree

(***************************************************************************)
(* Verses shorter than the query, checked under SpecFuzzy                  *)
(***************************************************************************)
\* the number of whitespace-separated tokens of a str
TokenCount(text) == Len(Split(text))

\* the stored verses with fewer tokens than the query of the call in hand
ShorterVerses ==
    {v \in Elements(get_all_verses(db)) :
        TokenCount(SearchedText(v, call.normalized))
            < TokenCount(SearchQuery(call.query, call.normalized))}

\* C30: with a threshold greater than 0, fuzzy_substring_search evaluates no
\* window of a verse text that has fewer tokens than the query and returns
\* None for it, so fuzzy_search returns no verse with fewer words than the
\* query.
C30_ShorterVerseNeverMatched ==
    (call.op = "fuzzy_search" /\ RLess(<<0, 1>>, call.threshold)) =>
        /\ \A v \in ShorterVerses :
              LET q    == SearchQuery(call.query, call.normalized)
                  text == SearchedText(v, call.normalized)
              IN  /\ FuzzyWindows(TokenCount(text), TokenCount(q),
                                  Max(TokenCount(q) + 3, TokenCount(q) * 2)) = <<>>
                  /\ fuzzy_substring_search(q, text, call.threshold) = NoMatch
        /\ \A i \in 1..Len(call.ret) : call.ret[i].verse \notin ShorterVerses

\* a search with a positive threshold over a database that holds a verse with
\* fewer tokens than the query whose text scores at least the threshold against
\* the whole query, and that returns another verse
C30_Witness ==
    /\ call.op = "fuzzy_search"
    /\ RLess(<<0, 1>>, call.threshold)
    /\ call.ret # <<>>
    /\ \E v \in ShorterVerses :
          RLeq(call.threshold,
               RDiv100(token_sort_ratio(SearchQuery(call.query, call.normalized),
                                        SearchedText(v, call.normalized))))

====
